---- MODULE Spec2Model ----
(***************************************************************************)
(* A model of brain-indexer's packed morphology identifiers (index.hpp),  *)
(* of its two-level distributed Sort-Tile-Recursion bulk loader           *)
(* (detail/distributed_sort_tile_recursion.hpp), of its voxel grid        *)
(* (detail/index_grid.hpp), of its geometry kernel                        *)
(* (detail/geometries.hpp) and of its index tree (index.hpp).             *)
(***************************************************************************)
EXTENDS Integers, Naturals, Sequences, FiniteSets, TLC

VARIABLES
    idPc,       \* position of the MorphPartId construction: "new", "constructed", "thrown"
    idArgs,     \* the constructor's arguments [gid, section_id, segment_id]
    idVia,      \* which constructor ran: "none", "values", "tuple"
    idObj,      \* the constructed MorphPartId ([id |-> ...]) or NoObject
    idErr,      \* the what() of the exception thrown by the constructor, or "none"
    rdPc,       \* position in rank_distribution: "call", "loop", "done", "off"
    rdSize,     \* its argument comm_size
    rdLog,      \* its local log2_n
    rdK,        \* its loop counter k
    rdDist,     \* its local dist, a triple indexed 1..3 for the axes x, y, z
    nRanks,     \* mpi::size of the communicator given to distributed_partition
    strParams,  \* TwoLevelSTRParams [distributed, local] given to every rank
    inputSize,  \* per rank: values.size() when distributed_partition was called
    pc,         \* per rank: position in distributed_partition
    dim,        \* per rank: the dim of its current DistributedSortTileRecursion::apply
    comm,       \* per rank: its current communicator, the sequence of its ranks
    values,     \* per rank: the vector values (element ids)
    signal,     \* per rank: the process-wide signal flag
    err,        \* per rank: the exception that ended distributed_partition, or "none"
    loopK,      \* per rank: the loop counter k of the subtree loop
    localBoxes, \* per rank: local_bounding_boxes
    saved,      \* per rank: the save_subtree calls it made, in order
    calls,      \* per rank: the collectives it entered, in order
    recvCounts, \* the result of gather_counts (empty before the exchange)
    gatherMsgs, \* MPI_Gatherv contributions sent to the root and not yet received
    gathered,   \* per rank: bounding_boxes returned by gather_bounding_boxes
    topTrees,   \* the save_top_tree calls made, in order
    grid_,      \* per SpatialGrid object ("a", "b"): its map from voxel to entries
    inserted,   \* per SpatialGrid object: the entries its insert calls were given
    merges,     \* the operator+= calls made, in order, each <<target, source>>
    gmSphere,   \* the Sphere on which a predicate of the geometry kernel is called
    gmShape,    \* the Cylinder or Sphere given to it, or whose contains is called
    gmDone,     \* the predicates evaluated so far: "intersects", "contains"
    gmOut,      \* their results [intersects, contains], FALSE until evaluated
    trType,     \* the value type T of the IndexTree<T> object
    rtree,      \* its entries, in the order in which they were indexed
    trOut,      \* the last query made on the tree as it is now, and its result
    trPlaced,   \* the place calls made, in order, with their outcomes
    arIn,       \* the archive an indexed entity is read from
    arObj,      \* the entity the read yielded, <<>> if none
    arErr       \* the exception the read threw, of type "none" if none

idVars == <<idPc, idArgs, idVia, idObj, idErr>>

rdVars == <<rdPc, rdSize, rdLog, rdK, rdDist>>

ldVars == <<nRanks, strParams, inputSize, pc, dim, comm, values, signal, err, loopK,
            localBoxes, saved, calls, recvCounts, gatherMsgs, gathered, topTrees>>

gridVars == <<grid_, inserted, merges>>

gmVars == <<gmSphere, gmShape, gmDone, gmOut>>

trVars == <<trType, rtree, trOut, trPlaced>>

arVars == <<arIn, arObj, arErr>>

libVars == <<gridVars, gmVars, trVars, arVars>>

vars == <<idVars, rdVars, ldVars, libVars>>

\* no grid exists
GridIdle ==
    /\ grid_ = <<>>
    /\ inserted = <<>>
    /\ merges = <<>>

\* no predicate of the geometry kernel is evaluated
GmIdle ==
    /\ gmSphere = <<>>
    /\ gmShape = <<>>
    /\ gmDone = {}
    /\ gmOut = <<>>

\* no index tree exists
TrIdle ==
    /\ trType = ""
    /\ rtree = <<>>
    /\ trOut = <<>>
    /\ trPlaced = <<>>

\* no archive is read
ArIdle ==
    /\ arIn = <<>>
    /\ arObj = <<>>
    /\ arErr = [type |-> "none", what |-> ""]

LibIdle ==
    /\ GridIdle
    /\ GmIdle
    /\ TrIdle
    /\ ArIdle

(***************************************************************************)
(* Fixed-width unsigned integers.  A w-bit unsigned value is the set of   *)
(* the positions (0 = least significant) of its one bits, so a 64-bit     *)
(* identifier_t keeps its full width.                                      *)
(***************************************************************************)

\* unsigned long (identifier_t) is 64 bits wide
IdentifierBits == 64

\* unsigned (section_id, segment_id) is 32 bits wide
UnsignedBits == 32

Bit(x, i) == IF i \in x THEN 1 ELSE 0

\* x << n in a w-bit unsigned type: bits shifted past the width are lost
ShiftLeft(x, n, w) == {b + n : b \in {c \in x : c + n < w}}

\* x >> n
ShiftRight(x, n) == {b - n : b \in {c \in x : c >= n}}

\* x & y
BitAnd(x, y) == x \cap y

\* ~x in a w-bit unsigned type
BitNot(x, w) == (0 .. (w - 1)) \ x

RECURSIVE AddFrom(_, _, _, _, _)
AddFrom(x, y, i, carry, w) ==
    IF i = w THEN {}
    ELSE LET s == Bit(x, i) + Bit(y, i) + carry
         IN  (IF s % 2 = 1 THEN {i} ELSE {}) \cup AddFrom(x, y, i + 1, s \div 2, w)

\* x + y in a w-bit unsigned type (wraps modulo 2^w)
Add(x, y, w) == AddFrom(x, y, 0, 0, w)

\* x - 1 in a w-bit unsigned type, for x # 0
Decrement(x, w) ==
    LET low == CHOOSE b \in x : \A c \in x : b <= c
    IN  (x \ {low}) \cup (0 .. (low - 1))

\* conversion of a value to a narrower unsigned type
Truncate(x, w) == {b \in x : b < w}

(***************************************************************************)
(* Packed identifiers: index.hpp                                           *)
(***************************************************************************)

N_SEGMENT_BITS == 14

N_SECTION_BITS == 14

N_TOTAL_BITS == N_SEGMENT_BITS + N_SECTION_BITS

N_GID_BITS == IdentifierBits - N_TOTAL_BITS

\* ((Int(1) << n_bits) - 1) in an Int of w bits
mask_bits(n_bits, w) == Decrement(ShiftLeft({0}, n_bits, w), w)

MASK_SEGMENT_BITS == mask_bits(N_SEGMENT_BITS, IdentifierBits)

MASK_SECTION_BITS ==
    ShiftLeft(mask_bits(N_SECTION_BITS, IdentifierBits), N_SEGMENT_BITS, IdentifierBits)

is_gid_safe(g) ==
    BitAnd(g, BitNot(mask_bits(N_GID_BITS, IdentifierBits), IdentifierBits)) = {}

is_section_id_safe(s) ==
    BitAnd(s, BitNot(mask_bits(N_SECTION_BITS, UnsignedBits), UnsignedBits)) = {}

is_segment_id_safe_wide(s) ==
    BitAnd(s, BitNot(mask_bits(N_SEGMENT_BITS + 1, UnsignedBits), UnsignedBits)) = {}

is_segment_id_safe(s) ==
    BitAnd(s, BitNot(mask_bits(N_SEGMENT_BITS, UnsignedBits), UnsignedBits)) = {}

\* the member initializer with the gid shifted by the wrong width
PackedIdShort(g, sec, seg) ==
    Add(Add(ShiftLeft(g, N_SEGMENT_BITS, IdentifierBits),
            ShiftLeft(sec, N_SEGMENT_BITS, UnsignedBits), IdentifierBits),
        seg, IdentifierBits)

\* ShapeId{(gid << N_TOTAL_BITS) + (section_id << N_SEGMENT_BITS) + segment_id}:
\* the section shift is done in unsigned, the sums in identifier_t
PackedId(g, sec, seg) ==
    Add(Add(ShiftLeft(g, N_TOTAL_BITS, IdentifierBits),
            ShiftLeft(sec, N_SEGMENT_BITS, UnsignedBits), IdentifierBits),
        seg, IdentifierBits)

NoObject == [none |-> TRUE]

\* the constructor's outcome: the object, or the exception it throws
MorphPartId(g, sec, seg) ==
    IF ~(is_gid_safe(g) /\ is_section_id_safe(sec) /\ is_segment_id_safe(seg))
    THEN [obj |-> NoObject,
          err |-> IF ~is_gid_safe(g) THEN "Invalid gid."
                  ELSE IF ~is_section_id_safe(sec) THEN "Invalid section_id."
                  ELSE "Invalid segment_id."]
    ELSE [obj |-> [id |-> PackedId(g, sec, seg)], err |-> "none"]

gid(id) == ShiftRight(id, N_TOTAL_BITS)

segment_id(id) == Truncate(BitAnd(id, MASK_SEGMENT_BITS), UnsignedBits)

\* the section accessor without its right shift
section_id_unshifted(id) == Truncate(BitAnd(id, MASK_SECTION_BITS), UnsignedBits)

section_id(id) ==
    Truncate(ShiftRight(BitAnd(id, MASK_SECTION_BITS), N_SEGMENT_BITS), UnsignedBits)

\* Argument values tried: zero, one, the largest value of each field, the
\* first value past each field, and values whose shift wraps the word.
GidSamples ==
    {{}, {0}, {0, 2}, {35}, 0 .. 35, {36}, {0, 36}, {63}, 0 .. 63}

FieldSamples ==
    {{}, {0}, {1, 3}, {13}, 0 .. 13, {14}, {0, 14}, {18}, 0 .. 31}

IdInit ==
    /\ idPc = "new"
    /\ idArgs \in [gid : GidSamples, section_id : FieldSamples, segment_id : FieldSamples]
    /\ idVia = "none"
    /\ idObj = NoObject
    /\ idErr = "none"
    /\ rdPc = "off"
    /\ rdSize = 1
    /\ rdLog = 0
    /\ rdK = 0
    /\ rdDist = <<0, 0, 0>>
    /\ nRanks = 0
    /\ strParams = <<>>
    /\ inputSize = <<>>
    /\ pc = <<>>
    /\ dim = <<>>
    /\ comm = <<>>
    /\ values = <<>>
    /\ signal = <<>>
    /\ err = <<>>
    /\ loopK = <<>>
    /\ localBoxes = <<>>
    /\ saved = <<>>
    /\ calls = <<>>
    /\ recvCounts = <<>>
    /\ gatherMsgs = {}
    /\ gathered = <<>>
    /\ topTrees = <<>>
    /\ LibIdle

\* MorphPartId(identifier_t gid, unsigned section_id, unsigned segment_id)
Construct ==
    /\ idPc = "new"
    /\ LET r == MorphPartId(idArgs.gid, idArgs.section_id, idArgs.segment_id)
       IN  /\ idObj' = r.obj
           /\ idErr' = r.err
           /\ idPc' = IF r.err = "none" THEN "constructed" ELSE "thrown"
    /\ idVia' = "values"
    /\ UNCHANGED idArgs
    /\ UNCHANGED <<rdVars, ldVars, libVars>>

\* MorphPartId(const std::tuple<...>& ids): delegates to the constructor above
ConstructFromTuple ==
    /\ idPc = "new"
    /\ LET ids == <<idArgs.gid, idArgs.section_id, idArgs.segment_id>>
           r == MorphPartId(ids[1], ids[2], ids[3])
       IN  /\ idObj' = r.obj
           /\ idErr' = r.err
           /\ idPc' = IF r.err = "none" THEN "constructed" ELSE "thrown"
    /\ idVia' = "tuple"
    /\ UNCHANGED idArgs
    /\ UNCHANGED <<rdVars, ldVars, libVars>>

IdNext == Construct \/ ConstructFromTuple

(***************************************************************************)
(* The rank grid: rank_distribution, distributed_sort_tile_recursion.hpp   *)
(***************************************************************************)

\* the largest log2 of a communicator size given to rank_distribution
MaxLog2CommSize == 14

RECURSIVE int_pow2(_)
int_pow2(k) == IF k = 0 THEN 1 ELSE 2 * int_pow2(k - 1)

RECURSIVE int_log2(_)
int_log2(n) == IF n <= 1 THEN 0 ELSE 1 + int_log2(n \div 2)

is_power_of_two(n) == n >= 1 /\ int_pow2(int_log2(n)) = n

\* the axis given the k-th factor of two, with the axes rotated by one
AxisOfFactorRotated(k) == (k + 1) % 3

\* dist[k % 3]: the axis given the k-th factor of two
AxisOfFactor(k) == k % 3

\* one iteration of the loop: dist[k % 3] += 1  (dist is indexed from 1 here)
CountFactor(dist, k) == [dist EXCEPT ![AxisOfFactor(k) + 1] = @ + 1]

\* the second loop: dk = int_pow2(dk) for every axis
PowersOfTwo(dist) == [i \in 1 .. 3 |-> int_pow2(dist[i])]

RECURSIVE CountFactorsFrom(_, _, _)
CountFactorsFrom(dist, k, log2_n) ==
    IF k < log2_n THEN CountFactorsFrom(CountFactor(dist, k), k + 1, log2_n) ELSE dist

\* the value rank_distribution(comm_size) returns
rank_distribution(comm_size) ==
    PowersOfTwo(CountFactorsFrom(<<0, 0, 0>>, 0, int_log2(comm_size)))

RdInit ==
    /\ rdPc = "call"
    /\ rdSize \in {int_pow2(q) : q \in 0 .. MaxLog2CommSize}
    /\ rdLog = 0
    /\ rdK = 0
    /\ rdDist = <<0, 0, 0>>
    /\ idPc = "off"
    /\ idArgs = [gid |-> {}, section_id |-> {}, segment_id |-> {}]
    /\ idVia = "none"
    /\ idObj = NoObject
    /\ idErr = "none"
    /\ nRanks = 0
    /\ strParams = <<>>
    /\ inputSize = <<>>
    /\ pc = <<>>
    /\ dim = <<>>
    /\ comm = <<>>
    /\ values = <<>>
    /\ signal = <<>>
    /\ err = <<>>
    /\ loopK = <<>>
    /\ localBoxes = <<>>
    /\ saved = <<>>
    /\ calls = <<>>
    /\ recvCounts = <<>>
    /\ gatherMsgs = {}
    /\ gathered = <<>>
    /\ topTrees = <<>>
    /\ LibIdle

\* assert(is_power_of_two(comm_size)); dist = {0, 0, 0}; log2_n = int_log2(comm_size)
RdEnter ==
    /\ rdPc = "call"
    /\ rdPc' = IF is_power_of_two(rdSize) THEN "loop" ELSE "aborted"
    /\ rdLog' = int_log2(rdSize)
    /\ rdK' = 0
    /\ rdDist' = <<0, 0, 0>>
    /\ UNCHANGED rdSize
    /\ UNCHANGED <<idVars, ldVars, libVars>>

\* for (int k = 0; k < log2_n; ++k) dist[k % 3] += 1
RdCount ==
    /\ rdPc = "loop"
    /\ rdK < rdLog
    /\ rdDist' = CountFactor(rdDist, rdK)
    /\ rdK' = rdK + 1
    /\ UNCHANGED <<rdPc, rdSize, rdLog>>
    /\ UNCHANGED <<idVars, ldVars, libVars>>

\* for (auto &dk : dist) dk = int_pow2(dk); assert(product == comm_size); return dist
RdReturn ==
    /\ rdPc = "loop"
    /\ rdK >= rdLog
    /\ rdDist' = PowersOfTwo(rdDist)
    /\ rdPc' = IF PowersOfTwo(rdDist)[1] * PowersOfTwo(rdDist)[2] * PowersOfTwo(rdDist)[3]
                    = rdSize
                THEN "done" ELSE "aborted"
    /\ UNCHANGED <<rdSize, rdLog, rdK>>
    /\ UNCHANGED <<idVars, ldVars, libVars>>

RdNext == RdEnter \/ RdCount \/ RdReturn

SpecId == IdInit /\ [][IdNext]_vars

SpecRankDist == RdInit /\ [][RdNext]_vars

(***************************************************************************)
(* The two-level STR bulk loader: distributed_partition and the functions  *)
(* it calls, distributed_sort_tile_recursion.hpp.  Every rank runs         *)
(* distributed_partition; a collective is one joint step of the ranks of   *)
(* its communicator, taken once all of them have entered it.               *)
(***************************************************************************)

\* the largest number of local partitions along the first axis (str_params.local)
MaxLocalParts == 2

\* the largest number of elements rank 0 holds beyond the minimum
MaxExtra == 3

\* the largest number of ranks called with one element less than the minimum
MaxShort == 1

\* the largest number of termination signals delivered during one load
MaxSignals == 1

\* the largest number of boxes a rank gives to gather_bounding_boxes alone
MaxBoxes == 2

\* values.size() < 10ul * mpi::size(comm)
MinElementsFactor == 10

\* std::numeric_limits<int>::max(), the bound of util::safe_integer_cast<int>
IntMax == 2147483647

\* the communicator sizes on which the whole load is run
CommSizes == {1, 2}

\* the communicator sizes on which the distributed STR and the gather are run alone
GridCommSizes == {1, 2, 4}

\* the communicator sizes on which the rank grid is followed through the
\* recursion; 8 ranks make a grid of 2 x 2 x 2
SplitCommSizes == {1, 2, 4, 8}

Ranks == 0 .. (nRanks - 1)

\* the communicator given to distributed_partition: all ranks, in rank order
World == [i \in 1 .. nRanks |-> i - 1]

Members(c) == {c[i] : i \in 1 .. Len(c)}

\* mpi::rank(c) on world rank r
mpi_rank(c, r) == (CHOOSE i \in 1 .. Len(c) : c[i] = r) - 1

\* mpi::size(c)
mpi_size(c) == Len(c)

RECURSIVE SumSeq(_)
SumSeq(q) == IF q = <<>> THEN 0 ELSE q[1] + SumSeq(Tail(q))

RECURSIVE Flatten(_)
Flatten(qs) == IF qs = <<>> THEN <<>> ELSE qs[1] \o Flatten(Tail(qs))

\* the centre of element e; the three coordinates repeat with different
\* periods, so that keys tie and no axis is sorted like another
Center(e) == <<(e * 7) % 10, (e * 3) % 7, e % 5>>

\* GetCenterCoordinate / GetCoordinate: the centre of e along axis d (0, 1, 2)
GetCenterCoordinate(e, d) == Center(e)[d + 1]

\* the values a centre coordinate takes
Coordinates == 0 .. 9

\* a stable sort of q by the coordinate along axis d: the elements of each key
\* in turn, each group in the order it has in q
StableSortByKey(q, d) ==
    Flatten([k \in 1 .. Cardinality(Coordinates) |->
                SelectSeq(q, LAMBDA e : GetCenterCoordinate(e, d) = k - 1)])

\* the ways to give n mod size ranks of a communicator one element more
SurplusSets(size, n) == {T \in SUBSET (1 .. size) : Cardinality(T) = n % size}

\* the slice of q that the i-th rank gets when the ranks get counts[1], counts[2], ...
Chunk(q, counts, i) ==
    LET off == SumSeq(SubSeq(counts, 1, i - 1))
    IN  SubSeq(q, off + 1, off + counts[i])

\* DistributedMemorySorter::sort_and_balance on communicator c along axis d:
\* the elements of all its ranks, sorted by key and dealt out in rank order,
\* floor or ceil of the average to each rank; the set of the outcomes, one for
\* each choice T of the ranks that get the ceil
sort_and_balance(c, d) ==
    LET all == Flatten([i \in 1 .. Len(c) |-> values[c[i]]])
        sorted == StableSortByKey(all, d)
    IN  {[r \in Ranks |->
             IF r \in Members(c)
             THEN Chunk(sorted,
                        [i \in 1 .. Len(c) |->
                            (Len(all) \div Len(c)) + (IF i \in T THEN 1 ELSE 0)],
                        mpi_rank(c, r) + 1)
             ELSE values[r]] : T \in SurplusSets(Len(c), Len(all))}

\* DistributedSTRParams::n_ranks_in_subslice<d>(): the ranks of one slice along axis d
n_ranks_in_subslice(d) ==
    LET n == strParams.distributed.n_ranks_per_dim
    IN  IF d = 0 THEN n[2] * n[3] ELSE IF d = 1 THEN n[3] ELSE 1

\* the color taken as the rank divided by the slices of the axis
SplitColorBySlices(k_rank_in_slice, d) ==
    k_rank_in_slice \div strParams.distributed.n_ranks_per_dim[d + 1]

\* the color taken as the remainder of the rank
SplitColorRemainder(k_rank_in_slice, d) == k_rank_in_slice % n_ranks_in_subslice(d)

\* int color = k_rank_in_slice / str_params.n_ranks_in_subslice<dim>()
SplitColor(k_rank_in_slice, d) == k_rank_in_slice \div n_ranks_in_subslice(d)

\* mpi::comm_split(c, color, key) seen from rank r: the ranks of c with r's
\* color, ordered by their key k_rank_in_slice
comm_split(c, r, d) ==
    LET same == SelectSeq(c, LAMBDA q :
                    SplitColor(mpi_rank(c, q), d) = SplitColor(mpi_rank(c, r), d))
    IN  SortSeq(same, LAMBDA a, b : mpi_rank(c, a) < mpi_rank(c, b))

\* the names under which a rank records the collectives of apply at dim 0, 1, 2
SortCall(d) == <<"sort0", "sort1", "sort2">>[d + 1]

SplitCall(d) == <<"split0", "split1", "split2">>[d + 1]

\* util::check_signals(): TRUE when it throws, i.e. the signal flag of rank r is set
check_signals(r) == signal[r]

\* values.size() < 10ul * mpi::size(comm), with <= for <
TooFewElementsInclusive(n, size) == n <= MinElementsFactor * size

\* values.size() < 10ul * mpi::size(comm)
TooFewElements(n, size) == n < MinElementsFactor * size

\* values.size() of rank r at the call: short ranks miss the minimum by one,
\* rank 0 holds `extra` elements more than the minimum
LocalInputSize(r, size, extra, short) ==
    IF r \in short THEN MinElementsFactor * size - 1
    ELSE MinElementsFactor * size + (IF r = 0 THEN extra ELSE 0)

\* the state in which every rank of a communicator of `size` ranks stands at
\* position `at` of distributed_partition with sizes[r] elements and the local
\* bounding boxes boxes[r]
LoaderInit(size, parts, sizes, at, boxes) ==
    /\ nRanks = size
    /\ strParams =
           [distributed |->
                [n_points |-> SumSeq([q \in 1 .. size |-> sizes[q - 1]]),
                 n_ranks_per_dim |-> rank_distribution(size)],
            local |-> [n_parts_per_dim |-> parts]]
    /\ values = [r \in 0 .. (size - 1) |->
                    [i \in 1 .. sizes[r] |-> SumSeq([q \in 1 .. r |-> sizes[q - 1]]) + i]]
    /\ inputSize = sizes
    /\ pc = [r \in 0 .. (size - 1) |-> at]
    /\ dim = [r \in 0 .. (size - 1) |-> 0]
    /\ comm = [r \in 0 .. (size - 1) |-> [i \in 1 .. size |-> i - 1]]
    /\ signal = [r \in 0 .. (size - 1) |-> FALSE]
    /\ err = [r \in 0 .. (size - 1) |-> "none"]
    /\ loopK = [r \in 0 .. (size - 1) |-> 0]
    /\ localBoxes = boxes
    /\ saved = [r \in 0 .. (size - 1) |-> <<>>]
    /\ calls = [r \in 0 .. (size - 1) |->
                   IF at = "counts" THEN <<"gather_counts">> ELSE <<>>]
    /\ recvCounts = <<>>
    /\ gatherMsgs = {}
    /\ gathered = [r \in 0 .. (size - 1) |-> <<>>]
    /\ topTrees = <<>>
    /\ idPc = "off"
    /\ idArgs = [gid |-> {}, section_id |-> {}, segment_id |-> {}]
    /\ idVia = "none"
    /\ idObj = NoObject
    /\ idErr = "none"
    /\ rdPc = "off"
    /\ rdSize = 1
    /\ rdLog = 0
    /\ rdK = 0
    /\ rdDist = <<0, 0, 0>>
    /\ LibIdle

\* every rank is about to call distributed_partition; the elements are numbered
\* 1..N and rank r is called with the r-th block of them
Init ==
    \E size \in CommSizes, parts \in 1 .. MaxLocalParts, extra \in 0 .. MaxExtra :
    \E short \in {S \in SUBSET (0 .. (size - 1)) : Cardinality(S) <= MaxShort} :
        LoaderInit(size, <<parts, 1, 1>>,
                   [r \in 0 .. (size - 1) |-> LocalInputSize(r, size, extra, short)],
                   "start", [r \in 0 .. (size - 1) |-> <<>>])

\* every rank is about to call distributed_sort_tile_recursion (line 115)
InitSTR ==
    \E size \in GridCommSizes, extra \in 0 .. MaxExtra :
        LoaderInit(size, <<1, 1, 1>>,
                   [r \in 0 .. (size - 1) |-> LocalInputSize(r, size, extra, {})],
                   "apply", [r \in 0 .. (size - 1) |-> <<>>])

\* every rank is about to call distributed_sort_tile_recursion (line 115) with
\* the fewest elements the pre-condition lets pass
InitSplit ==
    \E size \in SplitCommSizes :
        LoaderInit(size, <<1, 1, 1>>,
                   [r \in 0 .. (size - 1) |-> LocalInputSize(r, size, 0, {})],
                   "apply", [r \in 0 .. (size - 1) |-> <<>>])

\* every rank has entered gather_bounding_boxes (line 15) with some boxes of its
\* own, lens[r] of them on rank r, each box naming its rank and its index
InitGather ==
    \E size \in GridCommSizes :
    \E lens \in [0 .. (size - 1) -> 0 .. MaxBoxes] :
        LoaderInit(size, <<1, 1, 1>>, [r \in 0 .. (size - 1) |-> 0], "counts",
                   [r \in 0 .. (size - 1) |->
                       [j \in 1 .. lens[r] |->
                           [id |-> r * MaxBoxes + j - 1,
                            n_elements |-> j,
                            box |-> [min |-> <<r, j, 0>>, max |-> <<r + 1, j + 1, 1>>]]]])

\* a termination signal reaches the process of rank r and sets its flag
Signal(r) ==
    /\ ~signal[r]
    /\ pc[r] \notin {"done", "failed"}
    /\ Cardinality({q \in Ranks : signal[q]}) < MaxSignals
    /\ signal' = [signal EXCEPT ![r] = TRUE]
    /\ UNCHANGED <<nRanks, strParams, inputSize, pc, dim, comm, values, err, loopK,
                   localBoxes, saved, calls, recvCounts, gatherMsgs, gathered, topTrees>>
    /\ UNCHANGED <<idVars, rdVars, libVars>>

\* distributed_partition, lines 108-119: the pre-condition, then the call of
\* distributed_sort_tile_recursion, which enters apply at dim 0 on comm
StartLoad(r) ==
    /\ pc[r] = "start"
    /\ IF TooFewElements(Len(values[r]), mpi_size(comm[r]))
       THEN /\ pc' = [pc EXCEPT ![r] = "failed"]
            /\ err' = [err EXCEPT ![r] = "Too few elements."]
       ELSE /\ pc' = [pc EXCEPT ![r] = "apply"]
            /\ err' = err
    /\ UNCHANGED <<nRanks, strParams, inputSize, dim, comm, values, signal, loopK,
                   localBoxes, saved, calls, recvCounts, gatherMsgs, gathered, topTrees>>
    /\ UNCHANGED <<idVars, rdVars, libVars>>

\* apply, lines 164-165, with the sort of dim 0 left out
ApplyEnterUnsortedFirst(r) ==
    /\ pc[r] = "apply"
    /\ IF check_signals(r)
       THEN /\ pc' = [pc EXCEPT ![r] = "failed"]
            /\ err' = [err EXCEPT ![r] = "Cancelled"]
            /\ calls' = calls
       ELSE /\ pc' = [pc EXCEPT ![r] = IF dim[r] = 0 THEN "split" ELSE "sort"]
            /\ err' = err
            /\ calls' = [calls EXCEPT ![r] =
                            IF dim[r] = 0 THEN @ ELSE Append(@, SortCall(dim[r]))]
    /\ UNCHANGED <<nRanks, strParams, inputSize, dim, comm, values, signal, loopK,
                   localBoxes, saved, recvCounts, gatherMsgs, gathered, topTrees>>
    /\ UNCHANGED <<idVars, rdVars, libVars>>

\* apply, lines 164-165: the checkpoint, then the rank enters sort_and_balance
ApplyEnter(r) ==
    /\ pc[r] = "apply"
    /\ IF check_signals(r)
       THEN /\ pc' = [pc EXCEPT ![r] = "failed"]
            /\ err' = [err EXCEPT ![r] = "Cancelled"]
            /\ calls' = calls
       ELSE /\ pc' = [pc EXCEPT ![r] = "sort"]
            /\ err' = err
            /\ calls' = [calls EXCEPT ![r] = Append(@, SortCall(dim[r]))]
    /\ UNCHANGED <<nRanks, strParams, inputSize, dim, comm, values, signal, loopK,
                   localBoxes, saved, recvCounts, gatherMsgs, gathered, topTrees>>
    /\ UNCHANGED <<idVars, rdVars, libVars>>

\* the communicators on which every rank is at position p
CommsAt(p) == {c \in {comm[r] : r \in Ranks} : \A q \in Members(c) : pc[q] = p /\ comm[q] = c}

\* the test that ends the recursion, passed one level too late
IsLastDimAfterSplit(d) == d = 3

\* if(dim == 2) { return; }
IsLastDim(d) == d = 2

\* apply, lines 165-169: the collective sort_and_balance returns on every rank
\* of c; at dim 2 apply returns, below it the rank enters comm_split
SortAndBalance(c) ==
    /\ c \in CommsAt("sort")
    /\ values' \in sort_and_balance(c, dim[c[1]])
    /\ pc' = [r \in Ranks |->
                 IF r \in Members(c) THEN (IF IsLastDim(dim[r]) THEN "serial" ELSE "split")
                 ELSE pc[r]]
    /\ calls' = [r \in Ranks |->
                    IF r \in Members(c) /\ ~IsLastDim(dim[r])
                    THEN Append(calls[r], SplitCall(dim[r])) ELSE calls[r]]
    /\ UNCHANGED <<nRanks, strParams, inputSize, dim, comm, signal, err, loopK,
                   localBoxes, saved, recvCounts, gatherMsgs, gathered, topTrees>>
    /\ UNCHANGED <<idVars, rdVars, libVars>>

\* apply, lines 172-177: the collective comm_split returns on every rank of c,
\* and each rank calls apply for dim + 1 on its sub-communicator
CommSplit(c) ==
    /\ c \in CommsAt("split")
    /\ comm' = [r \in Ranks |->
                   IF r \in Members(c) THEN comm_split(c, r, dim[r]) ELSE comm[r]]
    /\ dim' = [r \in Ranks |-> IF r \in Members(c) THEN dim[r] + 1 ELSE dim[r]]
    /\ pc' = [r \in Ranks |-> IF r \in Members(c) THEN "apply" ELSE pc[r]]
    /\ UNCHANGED <<nRanks, strParams, inputSize, values, signal, err, loopK,
                   localBoxes, saved, calls, recvCounts, gatherMsgs, gathered, topTrees>>
    /\ UNCHANGED <<idVars, rdVars, libVars>>

\* the first index of the k-th of `parts` balanced chunks of n elements (k from 0)
ChunkLow(n, parts, k) ==
    k * (n \div parts) + (IF k < n % parts THEN k ELSE n % parts)

RECURSIVE SerialSTRFrom(_, _, _)
SerialSTRFrom(q, parts, d) ==
    IF d = 3 THEN q
    ELSE LET sorted == StableSortByKey(q, d)
         IN  Flatten([k \in 1 .. parts[d + 1] |->
                 SerialSTRFrom(SubSeq(sorted,
                                      ChunkLow(Len(q), parts[d + 1], k - 1) + 1,
                                      ChunkLow(Len(q), parts[d + 1], k)),
                               parts, d + 1)])

\* serial_sort_tile_recursion(values, serial_str_params)
serial_sort_tile_recursion(q, parts) == SerialSTRFrom(q, parts, 0)

\* SerialSTRParams::n_parts()
n_parts(parts) == parts[1] * parts[2] * parts[3]

\* SerialSTRParams::partition_boundaries(): n_parts() + 1 indices, from 0 to n_points
partition_boundaries(n_points, parts) ==
    [k \in 1 .. (n_parts(parts) + 1) |-> ChunkLow(n_points, n_parts(parts), k - 1)]

\* the local serial partition count P of every rank
LocalParts == n_parts(strParams.local.n_parts_per_dim)

Min(S) == CHOOSE x \in S : \A y \in S : x <= y

Max(S) == CHOOSE x \in S : \A y \in S : y <= x

\* subtree.bounds(): the bounding box of the elements of a subtree
Bounds(elems) ==
    IF elems = <<>> THEN [min |-> <<>>, max |-> <<>>]
    ELSE [min |-> [a \in 1 .. 3 |-> Min({Center(elems[i])[a] : i \in 1 .. Len(elems)})],
          max |-> [a \in 1 .. 3 |-> Max({Center(elems[i])[a] : i \in 1 .. Len(elems)})]]

\* IndexedSubtreeBox(id, n_elements, box)
IndexedSubtreeBox(id, n_elements, box) ==
    [id |-> id, n_elements |-> n_elements, box |-> box]

\* a value-initialized IndexedSubtreeBox, as std::vector(n) creates it
DefaultSubtreeBox == IndexedSubtreeBox(0, 0, [min |-> <<>>, max |-> <<>>])

\* the subtree built from one element past values.data() + boundaries[k]
SubtreePastFirst(q, boundaries, k) == SubSeq(q, boundaries[k + 1] + 2, boundaries[k + 2])

\* Storage::subtree_type(values.data() + boundaries[k], values.data() + boundaries[k+1])
Subtree(q, boundaries, k) == SubSeq(q, boundaries[k + 1] + 1, boundaries[k + 2])

\* k_part with the rank and the partition in each other's place
SubtreeKeyTransposed(rank, n_serial_parts, k) == k * n_serial_parts + rank

\* k_part with the factor n_serial_parts forgotten
SubtreeKeyUnscaled(rank, n_serial_parts, k) == rank + k

\* auto k_part = size_t(mpi_rank) * n_serial_parts + k
SubtreeKey(rank, n_serial_parts, k) == rank * n_serial_parts + k

\* the checkpoint of the subtree loop, polled before the first iteration only
LoopCheckpointOnce(r) == check_signals(r) /\ loopK[r] = 0

\* util::check_signals() at the top of the subtree loop
LoopCheckpoint(r) == check_signals(r)

\* distributed_partition, lines 121-129: the local serial STR and the loop set-up
SerialSTR(r) ==
    /\ pc[r] = "serial"
    /\ values' = [values EXCEPT ![r] =
                     serial_sort_tile_recursion(@, strParams.local.n_parts_per_dim)]
    /\ loopK' = [loopK EXCEPT ![r] = 0]
    /\ localBoxes' = [localBoxes EXCEPT ![r] = <<>>]
    /\ pc' = [pc EXCEPT ![r] = "loop"]
    /\ UNCHANGED <<nRanks, strParams, inputSize, dim, comm, signal, err, saved, calls,
                   recvCounts, gatherMsgs, gathered, topTrees>>
    /\ UNCHANGED <<idVars, rdVars, libVars>>

\* distributed_partition, lines 131-142: one iteration of the subtree loop
SaveSubtree(r) ==
    /\ pc[r] = "loop"
    /\ loopK[r] < LocalParts
    /\ IF LoopCheckpoint(r)
       THEN /\ pc' = [pc EXCEPT ![r] = "failed"]
            /\ err' = [err EXCEPT ![r] = "Cancelled"]
            /\ UNCHANGED <<saved, localBoxes, loopK>>
       ELSE LET subtree == Subtree(values[r],
                                   partition_boundaries(Len(values[r]),
                                                        strParams.local.n_parts_per_dim),
                                   loopK[r])
                k_part == SubtreeKey(mpi_rank(World, r), LocalParts, loopK[r])
            IN  /\ saved' = [saved EXCEPT ![r] =
                                Append(@, [key |-> k_part, subtree |-> subtree])]
                /\ localBoxes' = [localBoxes EXCEPT ![r] =
                       Append(@, IndexedSubtreeBox(k_part, Len(subtree), Bounds(subtree)))]
                /\ loopK' = [loopK EXCEPT ![r] = @ + 1]
                /\ UNCHANGED <<pc, err>>
    /\ UNCHANGED <<nRanks, strParams, inputSize, dim, comm, values, signal, calls,
                   recvCounts, gatherMsgs, gathered, topTrees>>
    /\ UNCHANGED <<idVars, rdVars, libVars>>

\* distributed_partition, lines 144-145, and gather_bounding_boxes, line 15: the
\* checkpoint before the gather, then the rank enters gather_counts
GatherEnter(r) ==
    /\ pc[r] = "loop"
    /\ loopK[r] >= LocalParts
    /\ IF check_signals(r)
       THEN /\ pc' = [pc EXCEPT ![r] = "failed"]
            /\ err' = [err EXCEPT ![r] = "Cancelled"]
            /\ calls' = calls
       ELSE /\ pc' = [pc EXCEPT ![r] = "counts"]
            /\ err' = err
            /\ calls' = [calls EXCEPT ![r] = Append(@, "gather_counts")]
    /\ UNCHANGED <<nRanks, strParams, inputSize, dim, comm, values, signal, loopK,
                   localBoxes, saved, recvCounts, gatherMsgs, gathered, topTrees>>
    /\ UNCHANGED <<idVars, rdVars, libVars>>

\* mpi::gather_counts(local_bounding_boxes.size(), comm): the send-counts of all
\* ranks in rank order, exchanged once every rank has entered
GatherCounts ==
    /\ nRanks > 0
    /\ \A r \in Ranks : pc[r] = "counts"
    /\ recvCounts' = [i \in 1 .. nRanks |-> Len(localBoxes[World[i]])]
    /\ pc' = [r \in Ranks |-> "gatherv"]
    /\ calls' = [r \in Ranks |-> Append(calls[r], "gatherv")]
    /\ UNCHANGED <<nRanks, strParams, inputSize, dim, comm, values, signal, err, loopK,
                   localBoxes, saved, gatherMsgs, gathered, topTrees>>
    /\ UNCHANGED <<idVars, rdVars, libVars>>

\* mpi::offsets_from_counts(recv_counts): the exclusive prefix sums
offsets_from_counts(counts) == [i \in 1 .. Len(counts) |-> SumSeq(SubSeq(counts, 1, i - 1))]

\* the displacements with the counts passed in their place
GathervDisplacementsSwapped(counts) == counts

\* the recv_offsets passed to MPI_Gatherv as displacements
GathervDisplacements(counts) == offsets_from_counts(counts)

\* the receive buffer of the root after MPI_Gatherv: n_tl_boxes value-initialized
\* boxes, over which the counts[r] boxes of each rank r are written from
\* displs[r] on, in rank order
GathervReceive(n_tl_boxes, counts, displs, sent) ==
    [i \in 1 .. n_tl_boxes |->
        LET writers == {q \in 1 .. Len(counts) : displs[q] < i /\ i <= displs[q] + counts[q]}
        IN  IF writers = {} THEN DefaultSubtreeBox
            ELSE sent[Max(writers)][i - displs[Max(writers)]]]

\* the test guarding the top tree, true on every rank
IsTopTreeRankAny(rank) == TRUE

\* if(mpi_rank == 0)
IsTopTreeRank(rank) == rank = 0

\* the save_top_tree call of rank r over bounding_boxes, if it passes the test
TopTreesAfter(r, bounding_boxes) ==
    IF IsTopTreeRank(mpi_rank(World, r))
    THEN Append(topTrees, [by |-> r, boxes |-> bounding_boxes])
    ELSE topTrees

\* gather_bounding_boxes, lines 33-43, on a rank other than the root: it sends
\* its boxes and gets an empty vector; then distributed_partition, lines 147-154
GathervSend(r) ==
    /\ pc[r] = "gatherv"
    /\ mpi_rank(World, r) # 0
    /\ IF Len(localBoxes[r]) > IntMax
       THEN /\ pc' = [pc EXCEPT ![r] = "failed"]
            /\ err' = [err EXCEPT ![r] = "IntegerOverflow"]
            /\ UNCHANGED <<gatherMsgs, gathered, topTrees>>
       ELSE /\ gatherMsgs' = gatherMsgs \cup {[from |-> r, boxes |-> localBoxes[r]]}
            /\ gathered' = [gathered EXCEPT ![r] = <<>>]
            /\ topTrees' = TopTreesAfter(r, <<>>)
            /\ pc' = [pc EXCEPT ![r] = "done"]
            /\ err' = err
    /\ UNCHANGED <<nRanks, strParams, inputSize, dim, comm, values, signal, loopK,
                   localBoxes, saved, calls, recvCounts>>
    /\ UNCHANGED <<idVars, rdVars, libVars>>

\* gather_bounding_boxes, lines 18-32, on the root: MPI_Gatherv returns once the
\* boxes of every rank are there; then distributed_partition, lines 147-154
GathervRoot(r) ==
    /\ pc[r] = "gatherv"
    /\ mpi_rank(World, r) = 0
    /\ IF Len(localBoxes[r]) > IntMax
       THEN /\ pc' = [pc EXCEPT ![r] = "failed"]
            /\ err' = [err EXCEPT ![r] = "IntegerOverflow"]
            /\ UNCHANGED <<gatherMsgs, gathered, topTrees>>
       ELSE /\ \A q \in Ranks \ {r} : \E m \in gatherMsgs : m.from = q
            /\ LET sent == [i \in 1 .. nRanks |->
                               IF World[i] = r THEN localBoxes[r]
                               ELSE (CHOOSE m \in gatherMsgs : m.from = World[i]).boxes]
                   bounding_boxes == GathervReceive(SumSeq(recvCounts), recvCounts,
                                                   GathervDisplacements(recvCounts), sent)
               IN  /\ gathered' = [gathered EXCEPT ![r] = bounding_boxes]
                   /\ topTrees' = TopTreesAfter(r, bounding_boxes)
            /\ gatherMsgs' = {}
            /\ pc' = [pc EXCEPT ![r] = "done"]
            /\ err' = err
    /\ UNCHANGED <<nRanks, strParams, inputSize, dim, comm, values, signal, loopK,
                   localBoxes, saved, calls, recvCounts>>
    /\ UNCHANGED <<idVars, rdVars, libVars>>

Next ==
    \/ \E r \in Ranks : Signal(r)
    \/ \E r \in Ranks : StartLoad(r)
    \/ \E r \in Ranks : ApplyEnter(r)
    \/ \E c \in {comm[r] : r \in Ranks} : SortAndBalance(c)
    \/ \E c \in {comm[r] : r \in Ranks} : CommSplit(c)
    \/ \E r \in Ranks : SerialSTR(r)
    \/ \E r \in Ranks : SaveSubtree(r)
    \/ \E r \in Ranks : GatherEnter(r)
    \/ GatherCounts
    \/ \E r \in Ranks : GathervSend(r)
    \/ \E r \in Ranks : GathervRoot(r)

\* the steps of distributed_sort_tile_recursion
NextSTR ==
    \/ \E r \in Ranks : ApplyEnter(r)
    \/ \E c \in {comm[r] : r \in Ranks} : SortAndBalance(c)
    \/ \E c \in {comm[r] : r \in Ranks} : CommSplit(c)

Spec == Init /\ [][Next]_vars

\* the steps of the load that the ranks take themselves
LoadSteps ==
    \/ \E r \in Ranks : StartLoad(r)
    \/ \E r \in Ranks : ApplyEnter(r)
    \/ \E c \in {comm[r] : r \in Ranks} : SortAndBalance(c)
    \/ \E c \in {comm[r] : r \in Ranks} : CommSplit(c)
    \/ \E r \in Ranks : SerialSTR(r)
    \/ \E r \in Ranks : SaveSubtree(r)
    \/ \E r \in Ranks : GatherEnter(r)
    \/ GatherCounts
    \/ \E r \in Ranks : GathervSend(r)
    \/ \E r \in Ranks : GathervRoot(r)

\* the load on processes that keep running: a rank that can take its next step
\* does so, and a collective that every rank of its communicator has entered
\* returns; signals come or do not come
SpecLive == Init /\ [][Next]_vars /\ WF_vars(LoadSteps)

\* the steps of gather_bounding_boxes and of the top-tree save that follows it
NextGather ==
    \/ GatherCounts
    \/ \E r \in Ranks : GathervSend(r)
    \/ \E r \in Ranks : GathervRoot(r)

SpecSTR == InitSTR /\ [][NextSTR]_vars

\* the distributed STR on the rank grids of up to 8 ranks
SpecSplit == InitSplit /\ [][NextSTR]_vars

\* the distributed STR on processes that keep running: a rank that can enter
\* its next call does so, and a collective that every rank of its communicator
\* has entered returns
SpecSTRLive == InitSTR /\ [][NextSTR]_vars /\ WF_vars(NextSTR)

SpecGather == InitGather /\ [][NextGather]_vars

\* no MorphPartId is under construction
IdIdle ==
    /\ idPc = "off"
    /\ idArgs = [gid |-> {}, section_id |-> {}, segment_id |-> {}]
    /\ idVia = "none"
    /\ idObj = NoObject
    /\ idErr = "none"

\* rank_distribution is not running
RdIdle ==
    /\ rdPc = "off"
    /\ rdSize = 1
    /\ rdLog = 0
    /\ rdK = 0
    /\ rdDist = <<0, 0, 0>>

\* no load is running
LdIdle ==
    /\ nRanks = 0
    /\ strParams = <<>>
    /\ inputSize = <<>>
    /\ pc = <<>>
    /\ dim = <<>>
    /\ comm = <<>>
    /\ values = <<>>
    /\ signal = <<>>
    /\ err = <<>>
    /\ loopK = <<>>
    /\ localBoxes = <<>>
    /\ saved = <<>>
    /\ calls = <<>>
    /\ recvCounts = <<>>
    /\ gatherMsgs = {}
    /\ gathered = <<>>
    /\ topTrees = <<>>

(***************************************************************************)
(* The voxel grid, detail/index_grid.hpp: SpatialGrid<MorphoEntry, 5>.     *)
(* Coordinates and radii are integers, on which the CoordType arithmetic   *)
(* of point2voxel is exact.                                                *)
(***************************************************************************)

\* SpatialGrid<MorphoEntry, 5> and MorphSpatialGrid<5> of the tests
VoxelLen == 5

\* the largest number of insert calls made on the two grids together
MaxInserts == 2

\* the largest number of operator+= calls
MaxMerges == 1

\* the SpatialGrid objects
Grids == {"a", "b"}

\* Soma(gid, centroid, radius)
Soma(g, centroid, radius) ==
    [kind |-> "Soma", gid |-> g, centroid |-> centroid, radius |-> radius]

\* Segment(gid, section_id, segment_id, center1, center2, r)
Segment(g, sec, seg, center1, center2, r) ==
    [kind |-> "Segment", gid |-> g, section_id |-> sec, segment_id |-> seg,
     p1 |-> center1, p2 |-> center2, radius |-> r]

\* Sphere::bounding_box(): centroid - radius .. centroid + radius
SphereBoundingBox(centroid, radius) ==
    [min |-> [i \in 1 .. 3 |-> centroid[i] - radius],
     max |-> [i \in 1 .. 3 |-> centroid[i] + radius]]

\* Cylinder::bounding_box() of a cylinder whose axis is parallel to a coordinate
\* axis: the box of the flat-capped cylinder, the radius added across the axis
CylinderBoundingBox(p1, p2, radius) ==
    LET e == [i \in 1 .. 3 |-> IF p1[i] # p2[i] THEN 0 ELSE radius]
    IN  [min |-> [i \in 1 .. 3 |-> (IF p1[i] < p2[i] THEN p1[i] ELSE p2[i]) - e[i]],
         max |-> [i \in 1 .. 3 |-> (IF p1[i] < p2[i] THEN p2[i] ELSE p1[i]) + e[i]]]

\* boost::apply_visitor([](const auto& elem) { return elem.bounding_box(); }, value)
bounding_box(value) ==
    IF value.kind = "Soma" THEN SphereBoundingBox(value.centroid, value.radius)
    ELSE CylinderBoundingBox(value.p1, value.p2, value.radius)

\* point2voxel<VoxelLen>(value): floor(value / VoxelLen) of each coordinate
point2voxel(value) == [i \in 1 .. 3 |-> value[i] \div VoxelLen]

\* grid_[key] read without creating the voxel
Voxel(m, key) == IF key \in DOMAIN m THEN m[key] ELSE <<>>

\* this->grid_[key].push_back(value)
PushBack(m, key, value) ==
    [k \in DOMAIN m \cup {key} |->
        IF k = key THEN Append(Voxel(m, k), value) ELSE m[k]]

\* the two push_back of an insert: under vx1_i, and under vx2_i if it differs
PushAtBoth(m, vx1_i, vx2_i, value) ==
    IF vx1_i # vx2_i
    THEN PushBack(PushBack(m, vx1_i, value), vx2_i, value)
    ELSE PushBack(m, vx1_i, value)

\* the somas given to insert: the three of MorphoEntryTest
SomaSamples(g) ==
    {Soma(g, <<2, 2, 2>>, 1), Soma(g, <<1, 2, 3>>, 2), Soma(g, <<-2, 2, 2>>, 1)}

\* the segments given to insert, as (p1, p2, radius): the one of MorphoEntryTest,
\* one inside a voxel, one close to a voxel face, one crossing a face backwards
SegmentSamples ==
    {<<<<-2, -2, 2>>, <<0, -2, 2>>, 1>>,
     <<<<1, 1, 1>>, <<3, 1, 1>>, 1>>,
     <<<<4, 4, 4>>, <<4, 3, 4>>, 1>>,
     <<<<6, 1, 1>>, <<1, 1, 1>>, 0>>}

\* the number of insert calls made so far, the gid of the next entry
Inserts == Len(inserted["a"]) + Len(inserted["b"])

\* GridPlacementHelper<MorphoEntry>::insert(const MorphoEntry& value) on grid g
Insert(g, value) ==
    /\ grid_ # <<>>
    /\ Inserts < MaxInserts
    /\ LET bbox == bounding_box(value)
           vx1_i == point2voxel(bbox.min)
           vx2_i == point2voxel(bbox.max)
       IN  grid_' = [grid_ EXCEPT ![g] = PushAtBoth(@, vx1_i, vx2_i, value)]
    /\ inserted' = [inserted EXCEPT ![g] = Append(@, [entry |-> value, via |-> "insert"])]
    /\ UNCHANGED merges
    /\ UNCHANGED <<idVars, rdVars, ldVars, gmVars, trVars, arVars>>

\* GridPlacementHelper<MorphoEntry>::insert(gid, segment_i, p1, p2, radius) on grid g
InsertPoints(g, gid_, segment_i, p1, p2, radius) ==
    /\ grid_ # <<>>
    /\ Inserts < MaxInserts
    /\ LET vx1_i == point2voxel(p1)
           vx2_i == point2voxel(p2)
           value == Segment(gid_, 0, segment_i, p1, p2, radius)
       IN  /\ grid_' = [grid_ EXCEPT ![g] = PushAtBoth(@, vx1_i, vx2_i, value)]
           /\ inserted' = [inserted EXCEPT ![g] =
                              Append(@, [entry |-> value, via |-> "points"])]
    /\ UNCHANGED merges
    /\ UNCHANGED <<idVars, rdVars, ldVars, gmVars, trVars, arVars>>

RECURSIVE SumOver(_, _)
SumOver(f, S) ==
    IF S = {} THEN 0
    ELSE LET k == CHOOSE k \in S : TRUE IN f[k] + SumOver(f, S \ {k})

\* SpatialGrid::size(): the lengths of all voxel lists added up
size(m) == SumOver([k \in DOMAIN m |-> Len(m[k])], DOMAIN m)

\* v.insert(v.end(), item.second.begin(), item.second.end()), rhs's items first
MergedListPrepended(v, items) == items \o v

\* v.insert(v.end(), item.second.begin(), item.second.end())
MergedList(v, items) == v \o items

\* SpatialGrid::operator+=(rhs) seen from *this: every voxel of rhs is appended
MergedGrid(m, rhs) ==
    [k \in DOMAIN m \cup DOMAIN rhs |->
        IF k \in DOMAIN rhs THEN MergedList(Voxel(m, k), rhs[k]) ELSE m[k]]

\* g += h for two different grids
Merge(g, h) ==
    /\ grid_ # <<>>
    /\ g # h
    /\ Len(merges) < MaxMerges
    /\ grid_' = [grid_ EXCEPT ![g] = MergedGrid(@, grid_[h])]
    /\ merges' = Append(merges, <<g, h>>)
    /\ UNCHANGED inserted
    /\ UNCHANGED <<idVars, rdVars, ldVars, gmVars, trVars, arVars>>

\* two empty grids
InitGrid ==
    /\ grid_ = [g \in Grids |-> <<>>]
    /\ inserted = [g \in Grids |-> <<>>]
    /\ merges = <<>>
    /\ IdIdle
    /\ RdIdle
    /\ LdIdle
    /\ GmIdle
    /\ TrIdle
    /\ ArIdle

NextGridInsert ==
    \/ \E g \in Grids : \E value \in SomaSamples(Inserts) : Insert(g, value)
    \/ \E g \in Grids : \E s \in SegmentSamples :
           Insert(g, Segment(Inserts, 0, 0, s[1], s[2], s[3]))
    \/ \E g \in Grids : \E s \in SegmentSamples :
           InsertPoints(g, Inserts, 0, s[1], s[2], s[3])

NextGrid ==
    \/ NextGridInsert
    \/ \E g \in Grids, h \in Grids : Merge(g, h)

SpecGridInsert == InitGrid /\ [][NextGridInsert]_vars

SpecGrid == InitGrid /\ [][NextGrid]_vars

(***************************************************************************)
(* CoordType arithmetic, point3d.hpp.  A CoordType value is the rational   *)
(* <<n, d>> in lowest terms with d > 0, so that the kernel's divisions are *)
(* exact; <<0, 0>> is NaN, the result of 0 / 0, which every comparison     *)
(* answers with false.  Rounding is not modelled.                          *)
(***************************************************************************)

NaN == <<0, 0>>

Abs(n) == IF n < 0 THEN -n ELSE n

RECURSIVE Gcd(_, _)
Gcd(a, b) == IF b = 0 THEN a ELSE Gcd(b, a % b)

\* n / d in lowest terms, for d > 0
Ratio(n, d) == <<n \div Gcd(Abs(n), d), d \div Gcd(Abs(n), d)>>

\* the CoordType of the integer n, and of n / 2
Num(n) == <<n, 1>>

Half(n) == Ratio(n, 2)

RAdd(a, b) ==
    IF a[2] = 0 \/ b[2] = 0 THEN NaN ELSE Ratio(a[1] * b[2] + b[1] * a[2], a[2] * b[2])

RSub(a, b) ==
    IF a[2] = 0 \/ b[2] = 0 THEN NaN ELSE Ratio(a[1] * b[2] - b[1] * a[2], a[2] * b[2])

RMul(a, b) ==
    IF a[2] = 0 \/ b[2] = 0 THEN NaN ELSE Ratio(a[1] * b[1], a[2] * b[2])

\* a / b; 0 / 0 is NaN (no other division by zero occurs in the kernel)
RDiv(a, b) ==
    IF a[2] = 0 \/ b[2] = 0 \/ b[1] = 0 THEN NaN
    ELSE IF b[1] < 0 THEN Ratio(-(a[1] * b[2]), a[2] * (-b[1]))
    ELSE Ratio(a[1] * b[2], a[2] * b[1])

RLess(a, b) == a[2] # 0 /\ b[2] # 0 /\ a[1] * b[2] < b[1] * a[2]

RLeq(a, b) == a[2] # 0 /\ b[2] # 0 /\ a[1] * b[2] <= b[1] * a[2]

\* std::sqrt of a value that is the square of a rational (the only ones taken)
RSqrt(a) ==
    IF a[2] = 0 THEN NaN
    ELSE <<CHOOSE k \in 0 .. a[1] : k * k = a[1], CHOOSE k \in 1 .. a[2] : k * k = a[2]>>

\* Point3D{x, y, z} of integer coordinates
Point(x, y, z) == <<Num(x), Num(y), Num(z)>>

\* Point3Dx::operator+ and operator- (component-wise), operator* (scalar)
PAdd(p, q) == [i \in 1 .. 3 |-> RAdd(p[i], q[i])]

PSub(p, q) == [i \in 1 .. 3 |-> RSub(p[i], q[i])]

PScale(p, val) == [i \in 1 .. 3 |-> RMul(p[i], val)]

\* Point3Dx::dot, norm_sq, norm
Dot(p, q) == RAdd(RAdd(RMul(p[1], q[1]), RMul(p[2], q[2])), RMul(p[3], q[3]))

NormSq(p) == Dot(p, p)

Norm(p) == RSqrt(NormSq(p))

(***************************************************************************)
(* The geometry kernel, detail/geometries.hpp                              *)
(***************************************************************************)

\* Sphere{centroid, radius}
Sphere(centroid, radius) == [kind |-> "Sphere", centroid |-> centroid, radius |-> radius]

\* Cylinder{p1, p2, radius}
Cylinder(p1, p2, radius) == [kind |-> "Cylinder", p1 |-> p1, p2 |-> p2, radius |-> radius]

\* std::max(a, b) and std::min(a, b): the first argument unless the second wins
StdMax(a, b) == IF RLess(a, b) THEN b ELSE a

StdMin(a, b) == IF RLess(b, a) THEN b ELSE a

\* clamp(x, low, high)
clamp(x, low, high) == StdMin(StdMax(x, low), high)

\* project_point_onto_segment(base, dir, x)
project_point_onto_segment(base, dir, x) ==
    LET dir_dot_dir == NormSq(dir)
        x_dot_dir == Dot(PSub(x, base), dir)
        x_rel == clamp(RDiv(x_dot_dir, dir_dot_dir), Num(0), Num(1))
    IN  PAdd(base, PScale(dir, x_rel))

\* 100 * std::numeric_limits<CoordType>::epsilon() for CoordType = float: 100 * 2^-23
HundredEpsilon == Ratio(25, 2097152)

\* the test with c read as a capsule: the distance of the centroid to the axis
\* segment against the sum of the radii
SphereIntersectsCapsule(s, c) ==
    LET u == PSub(s.centroid, c.p1)
        v == PSub(c.p2, c.p1)
        x_rel == clamp(RDiv(Dot(v, u), NormSq(v)), Num(0), Num(1))
        max_distance == RAdd(s.radius, c.radius)
    IN  RLeq(NormSq(PSub(u, PScale(v, x_rel))), RMul(max_distance, max_distance))

\* Sphere::intersects(Cylinder const& c)
SphereIntersectsCylinder(s, c) ==
    LET u == PSub(s.centroid, c.p1)
        v == PSub(c.p2, c.p1)
        v_dot_u == Dot(v, u)
        v_dot_v == NormSq(v)
        max_distance == RAdd(s.radius, c.radius)
        max_distance_sq == RMul(max_distance, max_distance)
        closer_cap == IF RLess(v_dot_u, Num(0)) THEN c.p1 ELSE c.p2
        p == PAdd(c.p1, PScale(v, RDiv(v_dot_u, v_dot_v)))
        d == PSub(s.centroid, p)
        d_norm == Norm(d)
        centroid_to_cap ==
            IF RLess(d_norm, HundredEpsilon) THEN closer_cap
            ELSE project_point_onto_segment(
                     PSub(closer_cap, PScale(d, RDiv(c.radius, d_norm))),
                     PScale(d, RDiv(RMul(Num(2), c.radius), d_norm)),
                     s.centroid)
    IN  IF RLeq(Num(0), v_dot_u) /\ RLeq(v_dot_u, v_dot_v)
        THEN RLeq(RSub(NormSq(u), RDiv(RMul(v_dot_u, v_dot_u), v_dot_v)), max_distance_sq)
        ELSE IF RLess(max_distance_sq, NormSq(PSub(s.centroid, closer_cap)))
        THEN FALSE
        ELSE RLeq(NormSq(PSub(s.centroid, centroid_to_cap)), RMul(s.radius, s.radius))

\* Sphere::intersects(Sphere const& other): the distance of the centroids against
\* the sum of the radii
SphereIntersectsSphere(s, other) ==
    LET radii_sum == RAdd(s.radius, other.radius)
    IN  RLeq(NormSq(PSub(s.centroid, other.centroid)), RMul(radii_sum, radii_sum))

\* Sphere::contains(Point3D const& p)
SphereContains(s, p) == RLeq(NormSq(PSub(p, s.centroid)), RMul(s.radius, s.radius))

\* Cylinder::contains without the test for the caps
CylinderContainsUncapped(c, p) ==
    LET cyl_axis == PSub(c.p2, c.p1)
        p1_ptest == PSub(p, c.p1)
        dot_prod == Dot(p1_ptest, cyl_axis)
    IN  RLeq(RSub(NormSq(p1_ptest), RDiv(RMul(dot_prod, dot_prod), NormSq(cyl_axis))),
             RMul(c.radius, c.radius))

\* Cylinder::contains(Point3D const& p)
CylinderContains(c, p) ==
    LET cyl_axis == PSub(c.p2, c.p1)
        p1_ptest == PSub(p, c.p1)
        dot_prod == Dot(p1_ptest, cyl_axis)
        axis_len_sq == NormSq(cyl_axis)
        dist_sq == RSub(NormSq(p1_ptest), RDiv(RMul(dot_prod, dot_prod), axis_len_sq))
    IN  IF RLess(dot_prod, Num(0)) \/ RLess(axis_len_sq, dot_prod) THEN FALSE
        ELSE RLeq(dist_sq, RMul(c.radius, c.radius))

\* the three cylinders of BasicCylinderTree (centers, centers2, radius)
TestCylinders ==
    <<Cylinder(Point(0, 0, 0), Point(0, 5, 0), Num(2)),
      Cylinder(Point(10, 0, 0), Point(10, 5, 0), Half(5)),
      Cylinder(Point(20, 0, 0), Point(20, 5, 0), Num(4))>>

\* the three spheres of BasicSphereTree (centers, radius)
TestSpheres ==
    <<Sphere(Point(0, 0, 0), Num(2)),
      Sphere(Point(10, 0, 0), Half(5)),
      Sphere(Point(20, 0, 0), Num(4))>>

\* the query centres tcenter0 .. tcenter3 of the tests
TestCenters == <<Point(15, 0, 0), Point(5, 0, 0), Point(0, -3, 0), Point(0, 6, 0)>>

\* the cylinders given to the kernel: those of the tests, a thin one, one of
\* radius zero, one of length zero and one along x that runs backwards
CylinderSamples ==
    {TestCylinders[i] : i \in 1 .. 3}
        \cup {Cylinder(Point(0, 0, 0), Point(0, 5, 0), Num(1)),
              Cylinder(Point(0, 0, 0), Point(0, 5, 0), Num(0)),
              Cylinder(Point(0, 0, 0), Point(0, 0, 0), Num(2)),
              Cylinder(Point(5, 0, 0), Point(0, 0, 0), Num(1))}

\* the centroids of the spheres given to the kernel, their radii, and the
\* spheres whose contains and intersects are called
CentroidSamples ==
    {Point(x, y, 0) : x \in {0, 1, 2, 3, 4, 5}, y \in {-5, -3, -1, 0, 2, 5, 6, 7, 9}}
        \cup {TestCenters[i] : i \in 1 .. 4}
        \cup {Point(3, -3, 4), Point(3, 2, 4), Point(0, 7, 1)}

RadiusSamples == {Num(0), Num(1), Num(2)}

\* a sphere and a shape are given to the kernel
InitGeometry ==
    /\ gmSphere \in {Sphere(c, r) : c \in CentroidSamples, r \in RadiusSamples}
    /\ gmShape \in CylinderSamples \cup {TestSpheres[1], TestSpheres[2]}
    /\ gmDone = {}
    /\ gmOut = [intersects |-> FALSE, contains |-> FALSE]
    /\ IdIdle
    /\ RdIdle
    /\ LdIdle
    /\ GridIdle
    /\ TrIdle
    /\ ArIdle

\* gmSphere.intersects(gmShape)
GmIntersects ==
    /\ gmSphere # <<>>
    /\ "intersects" \notin gmDone
    /\ gmOut' = [gmOut EXCEPT !.intersects =
                    IF gmShape.kind = "Cylinder"
                    THEN SphereIntersectsCylinder(gmSphere, gmShape)
                    ELSE SphereIntersectsSphere(gmSphere, gmShape)]
    /\ gmDone' = gmDone \cup {"intersects"}
    /\ UNCHANGED <<gmSphere, gmShape>>
    /\ UNCHANGED <<idVars, rdVars, ldVars, gridVars, trVars, arVars>>

\* gmShape.contains(gmSphere.centroid)
GmContains ==
    /\ gmSphere # <<>>
    /\ "contains" \notin gmDone
    /\ gmOut' = [gmOut EXCEPT !.contains =
                    IF gmShape.kind = "Cylinder"
                    THEN CylinderContains(gmShape, gmSphere.centroid)
                    ELSE SphereContains(gmShape, gmSphere.centroid)]
    /\ gmDone' = gmDone \cup {"contains"}
    /\ UNCHANGED <<gmSphere, gmShape>>
    /\ UNCHANGED <<idVars, rdVars, ldVars, gridVars, trVars, arVars>>

NextGeometry == GmIntersects \/ GmContains

SpecGeometry == InitGeometry /\ [][NextGeometry]_vars

(***************************************************************************)
(* The index tree IndexTree<T>, index.hpp, on the entities of the unit     *)
(* tests.  An entry of the tree is a record with its geometry and, where  *)
(* its type has them, its id and its gid.                                  *)
(***************************************************************************)

\* the most insert calls and the most place calls made on one tree
MaxTreeInserts == 2

MaxPlacements == 2

\* Box3D{min_corner, max_corner}
Box3D(min_corner, max_corner) == [kind |-> "Box", min |-> min_corner, max |-> max_corner]

\* bgi::indexable: the bounding box of a shape; the box of a cylinder is that
\* of the cylinder with flat ends, its axis parallel to a coordinate axis
indexable(g) ==
    IF g.kind = "Box" THEN g
    ELSE IF g.kind = "Sphere"
    THEN Box3D([i \in 1 .. 3 |-> RSub(g.centroid[i], g.radius)],
               [i \in 1 .. 3 |-> RAdd(g.centroid[i], g.radius)])
    ELSE LET e == [i \in 1 .. 3 |-> IF g.p1[i] # g.p2[i] THEN Num(0) ELSE g.radius]
         IN  Box3D([i \in 1 .. 3 |-> RSub(StdMin(g.p1[i], g.p2[i]), e[i])],
                   [i \in 1 .. 3 |-> RAdd(StdMax(g.p1[i], g.p2[i]), e[i])])

\* Box.intersects(Box): the boxes overlap or touch on every axis
BoxIntersectsBox(a, b) ==
    \A i \in 1 .. 3 : RLeq(a.min[i], b.max[i]) /\ RLeq(b.min[i], a.max[i])

\* Sphere.intersects(Box): the point of the box nearest to the centroid is
\* within the radius
SphereIntersectsBox(s, b) ==
    LET nearest == [i \in 1 .. 3 |-> clamp(s.centroid[i], b.min[i], b.max[i])]
    IN  RLeq(NormSq(PSub(s.centroid, nearest)), RMul(s.radius, s.radius))

\* the box b lies within the box a
BoxWithin(b, a) == \A i \in 1 .. 3 : RLeq(a.min[i], b.min[i]) /\ RLeq(b.max[i], a.max[i])

\* the geometry modes of a query
GeometryModes == {"BoundingBoxGeometry", "BestEffortGeometry"}

\* the accept test of a query shape against an entry: against the bounding box of
\* the entry, or with the predicate of the kernel where the two shapes have one
geometry_intersects(query, entry, mode) ==
    IF mode = "BestEffortGeometry" /\ query.kind = "Sphere"
    THEN IF entry.geometry.kind = "Sphere"
         THEN SphereIntersectsSphere(query, entry.geometry)
         ELSE SphereIntersectsCylinder(query, entry.geometry)
    ELSE IF query.kind = "Sphere"
    THEN SphereIntersectsBox(query, indexable(entry.geometry))
    ELSE BoxIntersectsBox(query, indexable(entry.geometry))

\* find_intersecting_objs<GeometryMode>(shape): the entries that pass the accept
\* test, in the order of the tree
RECURSIVE find_intersecting_objs(_, _, _)
find_intersecting_objs(t, shape, mode) ==
    IF t = <<>> THEN <<>>
    ELSE (IF geometry_intersects(shape, Head(t), mode) THEN <<Head(t)>> ELSE <<>>)
             \o find_intersecting_objs(Tail(t), shape, mode)

\* is_intersecting<GeometryMode>(shape)
is_intersecting(t, shape, mode) ==
    \E i \in 1 .. Len(t) : geometry_intersects(shape, t[i], mode)

\* count_intersecting<GeometryMode>(shape)
count_intersecting(t, shape, mode) == Len(find_intersecting_objs(t, shape, mode))

\* the aggregation that records a gid when it is hit and counts it once
RECURSIVE agg_gid_seen(_)
agg_gid_seen(hits) ==
    IF hits = <<>> THEN <<>>
    ELSE (Head(hits).gid :> 1) @@ agg_gid_seen(Tail(hits))

\* the map gid -> count over a sequence of hits: ++counts[hit.gid] for each hit
RECURSIVE agg_gid(_)
agg_gid(hits) ==
    IF hits = <<>> THEN <<>>
    ELSE LET counts == agg_gid(Tail(hits))
             hit_gid == Head(hits).gid
         IN  IF hit_gid \in DOMAIN counts THEN [counts EXCEPT ![hit_gid] = @ + 1]
             ELSE (hit_gid :> 1) @@ counts

\* count_intersecting_agg_gid<GeometryMode>(shape)
count_intersecting_agg_gid(t, shape, mode) == agg_gid(find_intersecting_objs(t, shape, mode))

\* insert(entity) that puts the entity in the place of the last entry
TreeInsertOverLast(t, entity) ==
    IF t = <<>> THEN <<entity>> ELSE [t EXCEPT ![Len(t)] = entity]

\* insert(entity): the tree with the entity as a further entry
TreeInsert(t, entity) == Append(t, entity)

\* the sweep of place: from the shape's position along +x in steps of 2 * radius
\* until the shape is within the region and hits nothing (found), or its
\* centroid has left the region (not found)
RECURSIVE Sweep(_, _, _)
Sweep(t, region, shape) ==
    IF ~ BoxWithin(Box3D(shape.centroid, shape.centroid), region)
    THEN [found |-> FALSE, shape |-> shape]
    ELSE IF /\ BoxWithin(indexable(shape), region)
            /\ ~ is_intersecting(t, shape, "BoundingBoxGeometry")
    THEN [found |-> TRUE, shape |-> shape]
    ELSE Sweep(t, region,
               [shape EXCEPT !.centroid[1] = RAdd(@, RMul(Num(2), shape.radius))])

\* the position the sweep starts from: the shape's centroid if it is interior to
\* the region, the centre of the region otherwise
SweepStart(region, shape) ==
    IF \A i \in 1 .. 3 : RLess(region.min[i], shape.centroid[i])
                            /\ RLess(shape.centroid[i], region.max[i])
    THEN shape
    ELSE [shape EXCEPT !.centroid =
             [i \in 1 .. 3 |-> RDiv(RAdd(region.min[i], region.max[i]), Num(2))]]

\* place(region, shape) that leaves the tree as it was
placeWithoutInsert(t, region, shape) ==
    LET end == Sweep(t, region, SweepStart(region, shape))
    IN  [ok |-> end.found, shape |-> IF end.found THEN end.shape ELSE shape, tree |-> t]

\* place(region, shape): the outcome, the shape as the call leaves it and the tree
place(t, region, shape) ==
    LET end == Sweep(t, region, SweepStart(region, shape))
    IN  [ok |-> end.found,
         shape |-> IF end.found THEN end.shape ELSE shape,
         tree |-> IF end.found THEN TreeInsert(t, [geometry |-> end.shape]) ELSE t]

\* the entities of the tests: Sphere (NonOverlapPlacement, VariantGeometries),
\* Segment (SegmentTree), Synapse (SynapseTree), Soma (VariantNeuronPieces)
TestGids == <<1, 2, 2>>

TestEntities(type) ==
    [i \in 1 .. 3 |->
        IF type \in {"Sphere", "GeometryEntry"} THEN [geometry |-> TestSpheres[i]]
        ELSE IF type = "Segment"
        THEN [geometry |-> TestCylinders[i], id |-> i - 1, gid |-> i - 1]
        ELSE IF type = "Synapse"
        THEN [geometry |-> Sphere(TestSpheres[i].centroid, Num(0)), id |-> i - 1,
              gid |-> TestGids[i]]
        ELSE [geometry |-> TestSpheres[i], id |-> i - 1, gid |-> i - 1]]

\* Segment{10ul, 0u, 0u, centers[0], centers2[0], radius[0]} and
\* Segment{20ul, 0u, 0u, centers[0], centers[2], 10.0f}
TestSegment10 == [geometry |-> TestCylinders[1], id |-> 10, gid |-> 10]

TestSegment20 ==
    [geometry |-> Cylinder(Point(0, 0, 0), Point(20, 0, 0), Num(10)), id |-> 20, gid |-> 20]

\* the entities given to insert on a tree of the type
InsertSamples(type) ==
    IF type = "GeometryEntry" THEN {[geometry |-> TestCylinders[1]]}
    ELSE IF type = "Segment" THEN {TestSegment10}
    ELSE IF type = "Synapse"
    THEN {[geometry |-> Sphere(Point(5, 0, 0), Num(0)), id |-> 3, gid |-> 1],
          [geometry |-> Sphere(Point(0, 1, 0), Num(0)), id |-> 4, gid |-> 3]}
    ELSE {TestSegment10, TestSegment20}

\* the query shapes: Sphere{tcenter, tradius} and the boxes of SynapseTree
TestBoxes ==
    <<Box3D(Point(-1, -1, -1), Point(11, 1, 1)), Box3D(Point(-1, -1, -1), Point(21, 1, 1))>>

QueryShapes ==
    {Sphere(TestCenters[i], Num(2)) : i \in 1 .. 4} \cup {TestBoxes[i] : i \in 1 .. 2}

\* the regions and the shape given to place: those of NonOverlapPlacement and a
\* region around the x axis
PlaceRegions ==
    {Box3D(Point(0, 0, -2), Point(20, 5, 2)), Box3D(Point(0, -2, -2), Point(40, 2, 2))}

PlaceShapes == {Sphere(Point(0, 0, 0), Num(2))}

\* no query was made on the tree as it is now
NoQuery == [op |-> "", shape |-> <<>>, mode |-> "", result |-> <<>>]

\* IndexTree<T> rtree(entities): a tree of the three entities of a test
InitIndex ==
    /\ trType \in {"Sphere", "GeometryEntry", "Segment", "Synapse", "MorphoEntry"}
    /\ rtree = TestEntities(trType)
    /\ trOut = NoQuery
    /\ trPlaced = <<>>
    /\ IdIdle
    /\ RdIdle
    /\ LdIdle
    /\ GridIdle
    /\ GmIdle
    /\ ArIdle

\* rtree.is_intersecting<GeometryMode>(shape)
IsIntersecting ==
    /\ trType # ""
    /\ \E shape \in QueryShapes, mode \in GeometryModes :
          trOut' = [op |-> "is_intersecting", shape |-> shape, mode |-> mode,
                    result |-> is_intersecting(rtree, shape, mode)]
    /\ UNCHANGED <<trType, rtree, trPlaced>>
    /\ UNCHANGED <<idVars, rdVars, ldVars, gridVars, gmVars, arVars>>

\* rtree.find_intersecting_objs<GeometryMode>(shape)
FindIntersectingObjs ==
    /\ trType # ""
    /\ \E shape \in QueryShapes, mode \in GeometryModes :
          trOut' = [op |-> "find_intersecting_objs", shape |-> shape, mode |-> mode,
                    result |-> find_intersecting_objs(rtree, shape, mode)]
    /\ UNCHANGED <<trType, rtree, trPlaced>>
    /\ UNCHANGED <<idVars, rdVars, ldVars, gridVars, gmVars, arVars>>

\* rtree.count_intersecting<GeometryMode>(shape)
CountIntersecting ==
    /\ trType # ""
    /\ \E shape \in QueryShapes, mode \in GeometryModes :
          trOut' = [op |-> "count_intersecting", shape |-> shape, mode |-> mode,
                    result |-> count_intersecting(rtree, shape, mode)]
    /\ UNCHANGED <<trType, rtree, trPlaced>>
    /\ UNCHANGED <<idVars, rdVars, ldVars, gridVars, gmVars, arVars>>

\* rtree.count_intersecting_agg_gid<GeometryMode>(shape), on trees of entities with a gid
CountIntersectingAggGid ==
    /\ trType # ""
    /\ trType \notin {"Sphere", "GeometryEntry"}
    /\ \E shape \in QueryShapes, mode \in GeometryModes :
          trOut' = [op |-> "count_intersecting_agg_gid", shape |-> shape, mode |-> mode,
                    result |-> count_intersecting_agg_gid(rtree, shape, mode)]
    /\ UNCHANGED <<trType, rtree, trPlaced>>
    /\ UNCHANGED <<idVars, rdVars, ldVars, gridVars, gmVars, arVars>>

\* rtree.insert(entity), on the trees on which the tests call it
DoTreeInsert ==
    /\ trType \notin {"", "Sphere"}
    /\ Len(rtree) < 3 + MaxTreeInserts
    /\ \E entity \in InsertSamples(trType) :
          rtree' = TreeInsert(rtree, entity)
    /\ trOut' = NoQuery
    /\ UNCHANGED <<trType, trPlaced>>
    /\ UNCHANGED <<idVars, rdVars, ldVars, gridVars, gmVars, arVars>>

\* rtree.place(region, shape), on the tree on which the test calls it
DoPlace ==
    /\ trType = "Sphere"
    /\ Len(trPlaced) < MaxPlacements
    /\ \E region \in PlaceRegions, shape \in PlaceShapes :
          LET out == place(rtree, region, shape)
          IN  /\ rtree' = out.tree
              /\ trPlaced' = Append(trPlaced, [region |-> region, given |-> shape,
                                               ok |-> out.ok, shape |-> out.shape])
    /\ trOut' = NoQuery
    /\ UNCHANGED trType
    /\ UNCHANGED <<idVars, rdVars, ldVars, gridVars, gmVars, arVars>>

NextIndex ==
    \/ IsIntersecting
    \/ FindIntersectingObjs
    \/ CountIntersecting
    \/ CountIntersectingAggGid
    \/ DoTreeInsert
    \/ DoPlace

SpecIndex == InitIndex /\ [][NextIndex]_vars

(***************************************************************************)
(* Reading an indexed entity from an archive, IndexedShape::serialize      *)
(***************************************************************************)

\* #define SPATIAL_INDEX_STRUCT_VERSION 2
SPATIAL_INDEX_STRUCT_VERSION == 2

\* the largest class version found in an archive
MaxVersion == 3

\* the test of serialize that lets a version through
IsFutureFormatInclusive(version) == version >= SPATIAL_INDEX_STRUCT_VERSION

\* if(version > SPATIAL_INDEX_STRUCT_VERSION)
IsFutureFormat(version) == version > SPATIAL_INDEX_STRUCT_VERSION

\* throw std::runtime_error("File format is in a future format. ...")
FutureFormat ==
    [type |-> "std::runtime_error",
     what |-> "File format is in a future format. Please update Spatial Index."]

\* the indexed entities an archive holds: those of the tests
ArchivedEntities ==
    {TestEntities(type)[i] : type \in {"Segment", "Synapse", "MorphoEntry"}, i \in 1 .. 3}
        \cup {TestSegment10, TestSegment20} \cup InsertSamples("Synapse")

\* an archive holds one indexed entity, written with some class version
InitArchive ==
    /\ arIn \in [version : 0 .. MaxVersion, entity : ArchivedEntities]
    /\ arObj = <<>>
    /\ arErr = [type |-> "none", what |-> ""]
    /\ IdIdle
    /\ RdIdle
    /\ LdIdle
    /\ GridIdle
    /\ GmIdle
    /\ TrIdle

\* IndexedShape::serialize(ar, version) on a loading archive: the exception, or
\* the identifier and the shape read from the archive
Serialize ==
    /\ arIn # <<>>
    /\ arObj = <<>>
    /\ arErr.type = "none"
    /\ IF IsFutureFormat(arIn.version)
       THEN arErr' = FutureFormat /\ arObj' = arObj
       ELSE arObj' = arIn.entity /\ arErr' = arErr
    /\ UNCHANGED arIn
    /\ UNCHANGED <<idVars, rdVars, ldVars, gridVars, gmVars, trVars>>

SpecArchive == InitArchive /\ [][Serialize]_vars

(***************************************************************************)
(* Constructing the entities that carry a MorphPartId: Soma and Segment,   *)
(* index.hpp.  idObj is the identifier part of the entity; the shape part  *)
(* is copied from the arguments and cannot fail.                           *)
(***************************************************************************)

\* Soma(ids, centroid, radius), the constructor inherited from IndexedShape:
\* IndexT{ids} with ids the tuple (gid, section_id, segment_id)
SomaFromIds ==
    /\ idPc = "new"
    /\ LET r == MorphPartId(idArgs.gid, idArgs.section_id, idArgs.segment_id)
       IN  /\ idObj' = r.obj
           /\ idErr' = r.err
           /\ idPc' = IF r.err = "none" THEN "constructed" ELSE "thrown"
    /\ idVia' = "Soma(ids, centroid, radius)"
    /\ UNCHANGED idArgs
    /\ UNCHANGED <<rdVars, ldVars, libVars>>

\* Segment(ids, center1, center2, r), the constructor inherited from IndexedShape
SegmentFromIds ==
    /\ idPc = "new"
    /\ LET r == MorphPartId(idArgs.gid, idArgs.section_id, idArgs.segment_id)
       IN  /\ idObj' = r.obj
           /\ idErr' = r.err
           /\ idPc' = IF r.err = "none" THEN "constructed" ELSE "thrown"
    /\ idVia' = "Segment(ids, center1, center2, r)"
    /\ UNCHANGED idArgs
    /\ UNCHANGED <<rdVars, ldVars, libVars>>

\* Segment(gid, section_id, segment_id, center1, center2, r) noexcept:
\* super(std::tie(gid, section_id, segment_id), center1, center2, r); an
\* exception that leaves a noexcept function calls std::terminate
SegmentFromValues ==
    /\ idPc = "new"
    /\ LET r == MorphPartId(idArgs.gid, idArgs.section_id, idArgs.segment_id)
       IN  /\ idObj' = r.obj
           /\ idErr' = r.err
           /\ idPc' = IF r.err = "none" THEN "constructed" ELSE "terminated"
    /\ idVia' = "Segment(gid, section_id, segment_id, center1, center2, r)"
    /\ UNCHANGED idArgs
    /\ UNCHANGED <<rdVars, ldVars, libVars>>

EntityNext == SomaFromIds \/ SegmentFromIds \/ SegmentFromValues

SpecEntity == IdInit /\ [][EntityNext]_vars

(***************************************************************************)
(* Properties of the packed identifiers, checked under SpecId              *)
(***************************************************************************)

\* the value of the bit set x is below 2^n
Below(x, n) == x \subseteq 0 .. (n - 1)

ArgsInRange ==
    /\ Below(idArgs.gid, N_GID_BITS)
    /\ Below(idArgs.section_id, N_SECTION_BITS)
    /\ Below(idArgs.segment_id, N_SEGMENT_BITS)

\* C1: for every gid < 2^36, section_id < 2^14 and segment_id < 2^14 the
\* construction succeeds and gid(), section_id() and segment_id() return the
\* three values that were packed.
C1_RoundTrip ==
    (idPc # "new" /\ ArgsInRange) =>
        /\ idPc = "constructed"
        /\ gid(idObj.id) = idArgs.gid
        /\ section_id(idObj.id) = idArgs.section_id
        /\ segment_id(idObj.id) = idArgs.segment_id

\* an id built from the largest value of each of the three fields
C1_Witness ==
    /\ idPc = "constructed"
    /\ idArgs.gid = 0 .. 35
    /\ idArgs.section_id = 0 .. 13
    /\ idArgs.segment_id = 0 .. 13
    /\ idObj.id = 0 .. 63

\* C2: the construction throws exactly when some component is outside its
\* field width, it succeeds only when all three are inside, and a throwing
\* construction leaves no packed id behind.
C2_ThrowsIffOutOfRange ==
    idPc # "new" =>
        /\ (~ArgsInRange) <=> (idPc = "thrown")
        /\ ArgsInRange <=> (idPc = "constructed")
        /\ idPc = "thrown" => (idErr # "none" /\ idObj = NoObject)
        /\ idPc = "constructed" => (idErr = "none" /\ idObj # NoObject)

\* a construction that threw because only the segment id is one past its field
C2_Witness ==
    /\ idPc = "thrown"
    /\ idArgs.gid = 0 .. 35
    /\ idArgs.section_id = 0 .. 13
    /\ idArgs.segment_id = {14}
    /\ idErr = "Invalid segment_id."
    /\ idObj = NoObject

\* C3: the packed id of in-range components has segment_id in bits 0..13,
\* section_id in bits 14..27 and gid in bits 28..63, which is the value
\* gid * 2^28 + section_id * 2^14 + segment_id without carry or wrap-around.
C3_Layout ==
    (idPc = "constructed") =>
        \A b \in 0 .. (IdentifierBits - 1) :
            Bit(idObj.id, b) =
                IF b < 14 THEN Bit(idArgs.segment_id, b)
                ELSE IF b < 28 THEN Bit(idArgs.section_id, b - 14)
                ELSE Bit(idArgs.gid, b - 28)

\* an id whose three fields each have their top and bottom bit set
C3_Witness ==
    /\ idPc = "constructed"
    /\ idArgs.gid = 0 .. 35
    /\ idArgs.section_id = {1, 3}
    /\ idArgs.segment_id = 0 .. 13
    /\ idObj.id = (0 .. 13) \cup {15, 17} \cup (28 .. 63)

(***************************************************************************)
(* Properties of rank_distribution, checked under SpecRankDist             *)
(***************************************************************************)

\* ceil(a / 3) for a >= -2
CeilThird(a) == (a + 2) \div 3

\* q with 2^q = comm_size
Log2OfSize == CHOOSE q \in 0 .. (MaxLog2CommSize + 1) : int_pow2(q) = rdSize

\* C5: for comm_size = 2^q, rank_distribution returns (Rx, Ry, Rz) with
\* Rx * Ry * Rz = comm_size, Rx = 2^ceil(q/3), Ry = 2^ceil((q-1)/3) and
\* Rz = 2^ceil((q-2)/3); while it counts, the first k factors of two have
\* gone to the axes 0 mod 3, 1 mod 3, 2 mod 3 in turn.
C5_RankGrid ==
    /\ rdPc \notin {"aborted"}
    /\ rdPc = "loop" =>
           \A a \in 0 .. 2 :
               rdDist[a + 1] = Cardinality({j \in 0 .. (rdK - 1) : j % 3 = a})
    /\ rdPc = "done" =>
           /\ rdDist[1] * rdDist[2] * rdDist[3] = rdSize
           /\ rdDist[1] = int_pow2(CeilThird(Log2OfSize))
           /\ rdDist[2] = int_pow2(CeilThird(Log2OfSize - 1))
           /\ rdDist[3] = int_pow2(CeilThird(Log2OfSize - 2))
           /\ rdDist = rank_distribution(rdSize)

\* comm_size = 2^5 = 32 returned as the grid (4, 4, 2)
C5_Witness ==
    /\ rdPc = "done"
    /\ rdSize = 32
    /\ rdDist = <<4, 4, 2>>

(***************************************************************************)
(* Properties of the distributed STR, checked under SpecSTR                *)
(***************************************************************************)

\* the number of elements of all ranks together, as distributed_partition got them
TotalInput == SumSeq([i \in 1 .. nRanks |-> inputSize[i - 1]])

\* rank r has returned from the distributed STR
AfterSTR(r) == pc[r] \in {"serial", "loop", "counts", "gatherv", "done"}

\* C4: a rank that has returned from the three-level distributed STR over N
\* elements on R ranks holds floor(N/R) or ceil(N/R) elements.
C4_Balance ==
    \A r \in Ranks :
        AfterSTR(r) =>
            Len(values[r]) \in {TotalInput \div nRanks,
                                (TotalInput + nRanks - 1) \div nRanks}

\* four ranks have returned from the STR over 163 elements, one with 40 elements
\* and one with 41
C4_Witness ==
    /\ nRanks = 4
    /\ TotalInput = 163
    /\ \A r \in Ranks : pc[r] = "serial" /\ dim[r] = 2
    /\ \E r \in Ranks : Len(values[r]) = 40
    /\ \E r \in Ranks : Len(values[r]) = 41

(***************************************************************************)
(* Properties of the whole load, checked under Spec                        *)
(***************************************************************************)

\* C6: a rank called with fewer than 10 * R elements fails with "Too few
\* elements." before it enters a collective, saves a subtree or saves a top
\* tree; a rank called with 10 * R elements or more passes the check.
C6_Precondition ==
    \A r \in Ranks :
        /\ (inputSize[r] < 10 * nRanks /\ pc[r] # "start") =>
               /\ pc[r] = "failed"
               /\ err[r] = "Too few elements."
               /\ calls[r] = <<>>
               /\ saved[r] = <<>>
               /\ localBoxes[r] = <<>>
               /\ \A i \in 1 .. Len(topTrees) : topTrees[i].by # r
               /\ \A m \in gatherMsgs : m.from # r
        /\ (inputSize[r] >= 10 * nRanks /\ pc[r] # "start") =>
               /\ err[r] # "Too few elements."
               /\ pc[r] = "failed" => err[r] \in {"Cancelled", "IntegerOverflow"}

\* of two ranks, the one called with 19 elements has failed and the one called
\* with exactly 20 has passed the check and entered the first sort
C6_Witness ==
    /\ nRanks = 2
    /\ \E r \in Ranks, q \in Ranks :
           /\ inputSize[r] = 19
           /\ pc[r] = "failed"
           /\ err[r] = "Too few elements."
           /\ inputSize[q] = 20
           /\ pc[q] = "sort"
           /\ calls[q] = <<"sort0">>

\* the box of a subtree: every element lies in it and every face is touched
IsBoundsOf(box, elems) ==
    /\ elems # <<>>
    /\ \A a \in 1 .. 3 :
           /\ \A i \in 1 .. Len(elems) :
                  box.min[a] <= Center(elems[i])[a] /\ Center(elems[i])[a] <= box.max[a]
           /\ \E i \in 1 .. Len(elems) : Center(elems[i])[a] = box.min[a]
           /\ \E i \in 1 .. Len(elems) : Center(elems[i])[a] = box.max[a]

\* C7: on every rank the k-th local partition (k = 0..P-1) is saved once, as the
\* k-th save of the rank, under the key rank * P + k, and the k-th recorded
\* tuple is (that key, the subtree's element count, the subtree's bounding box).
C7_Subtrees ==
    \A r \in Ranks :
        LET P == LocalParts
            b == partition_boundaries(Len(values[r]), strParams.local.n_parts_per_dim)
        IN  /\ Len(saved[r]) = Len(localBoxes[r])
            /\ Len(saved[r]) <= P
            /\ pc[r] = "loop" => Len(saved[r]) = loopK[r]
            /\ pc[r] \in {"counts", "gatherv", "done"} => Len(saved[r]) = P
            /\ \A j \in 1 .. Len(saved[r]) :
                   /\ saved[r][j].key = r * P + (j - 1)
                   /\ saved[r][j].subtree = SubSeq(values[r], b[j] + 1, b[j + 1])
                   /\ localBoxes[r][j].id = r * P + (j - 1)
                   /\ localBoxes[r][j].n_elements = b[j + 1] - b[j]
                   /\ IsBoundsOf(localBoxes[r][j].box, saved[r][j].subtree)

\* rank 1 of two has saved its two partitions under the keys 2 and 3
C7_Witness ==
    /\ nRanks = 2
    /\ LocalParts = 2
    /\ pc[1] = "done"
    /\ Len(saved[1]) = 2
    /\ saved[1][1].key = 2
    /\ saved[1][2].key = 3
    /\ localBoxes[1][2].id = 3

\* the boxes of a sequence, as a set
BoxSet(q) == {q[i] : i \in 1 .. Len(q)}

\* C8: save_top_tree is called at most once and by rank 0 only, when every rank
\* has saved all its subtrees and handed its tuples to the gather; the top tree
\* is built over the R * P tuples of all ranks; a completed rank 0 has saved it;
\* the other ranks get an empty gather result.
C8_TopTree ==
    /\ Len(topTrees) <= 1
    /\ \A i \in 1 .. Len(topTrees) :
           /\ topTrees[i].by = 0
           /\ \A r \in Ranks : pc[r] = "done" /\ Len(saved[r]) = LocalParts
           /\ Len(topTrees[i].boxes) = nRanks * LocalParts
           /\ BoxSet(topTrees[i].boxes) = UNION {BoxSet(localBoxes[r]) : r \in Ranks}
           /\ {topTrees[i].boxes[j].id : j \in 1 .. Len(topTrees[i].boxes)}
                  = UNION {{saved[r][j].key : j \in 1 .. Len(saved[r])} : r \in Ranks}
    /\ (nRanks > 0 /\ pc[0] = "done") => Len(topTrees) = 1
    /\ \A r \in Ranks \ {0} : gathered[r] = <<>>

\* a completed load of two ranks with two partitions each: one top tree of four
\* boxes, saved by rank 0
C8_Witness ==
    /\ nRanks = 2
    /\ LocalParts = 2
    /\ \A r \in Ranks : pc[r] = "done"
    /\ Len(topTrees) = 1
    /\ topTrees[1].by = 0
    /\ Len(topTrees[1].boxes) = 4

\* C10: a rank polls the signal flag at the start of each STR dim, before each
\* subtree build and before the gather: a rank that takes a step from one of
\* these positions with its flag set fails there with Cancelled and saves and
\* enters nothing in that step, a rank whose flag is clear is not cancelled,
\* and a failed rank never saves a subtree, enters a collective, contributes to
\* the gather or saves a top tree again.
C10_Cancellation ==
    [][\A r \in Ranks :
           LET moved == <<pc[r], loopK[r], saved[r], calls[r]>>'
                            # <<pc[r], loopK[r], saved[r], calls[r]>>
           IN  /\ (pc[r] \in {"apply", "loop"} /\ signal[r] /\ moved) =>
                      /\ pc'[r] = "failed"
                      /\ err'[r] = "Cancelled"
                      /\ saved'[r] = saved[r]
                      /\ localBoxes'[r] = localBoxes[r]
                      /\ calls'[r] = calls[r]
               /\ (pc[r] \in {"apply", "loop"} /\ ~signal[r] /\ moved) =>
                      /\ err'[r] = "none"
                      /\ pc'[r] \in {"sort", "loop", "counts"}
               /\ pc[r] = "failed" =>
                      /\ pc'[r] = "failed"
                      /\ err'[r] = err[r]
                      /\ saved'[r] = saved[r]
                      /\ calls'[r] = calls[r]
                      /\ {m \in gatherMsgs' : m.from = r} \subseteq gatherMsgs
                      /\ \A i \in 1 .. Len(topTrees') :
                             topTrees'[i].by = r => i <= Len(topTrees)
      ]_vars

\* a rank cancelled at the checkpoint of the second loop iteration: it has saved
\* one of its two subtrees and entered the three sorts
C10_Witness ==
    \E r \in Ranks :
        /\ LocalParts = 2
        /\ pc[r] = "failed"
        /\ err[r] = "Cancelled"
        /\ signal[r]
        /\ Len(saved[r]) = 1
        /\ calls[r] # <<>>

(***************************************************************************)
(* Properties of gather_bounding_boxes, checked under SpecGather           *)
(***************************************************************************)

\* C9: the boxes rank 0 gets from gather_bounding_boxes are the local sequences
\* of the ranks 0, 1, ... one after the other, each in its local order: the j-th
\* box of rank r is at the prefix sum of the send-counts of the ranks below r,
\* plus j.
C9_GatherOrder ==
    (nRanks > 0 /\ pc[0] = "done") =>
        /\ recvCounts = [i \in 1 .. nRanks |-> Len(localBoxes[i - 1])]
        /\ Len(gathered[0]) = SumSeq(recvCounts)
        /\ gathered[0] = Flatten([i \in 1 .. nRanks |-> localBoxes[i - 1]])
        /\ \A r \in Ranks : \A j \in 1 .. Len(localBoxes[r]) :
               gathered[0][SumSeq(SubSeq(recvCounts, 1, r)) + j] = localBoxes[r][j]

\* four ranks with 2, 0, 1 and 2 boxes: rank 0 has received the five boxes
C9_Witness ==
    /\ nRanks = 4
    /\ pc[0] = "done"
    /\ recvCounts = <<2, 0, 1, 2>>
    /\ Len(gathered[0]) = 5
    /\ gathered[0][3] = localBoxes[2][1]

(***************************************************************************)
(* Properties of the voxel grid, checked under SpecGridInsert and SpecGrid *)
(***************************************************************************)

\* the number of times value occurs in the list q
Count(value, q) == Cardinality({i \in 1 .. Len(q) : q[i] = value})

\* value is in grid m once under each of the voxels of the two corners of its
\* bounding box (once in all if they are the same voxel) and nowhere else
StoredAtCorners(m, value) ==
    LET bbox == bounding_box(value)
        kmin == point2voxel(bbox.min)
        kmax == point2voxel(bbox.max)
    IN  \A k \in DOMAIN m \cup {kmin, kmax} :
            Count(value, Voxel(m, k)) = IF k \in {kmin, kmax} THEN 1 ELSE 0

\* C11: after any sequence of inserts, by either overload, every inserted
\* entity is stored once under the voxel of the min corner of its bounding box
\* and once under the voxel of its max corner: once if the two are the same
\* voxel, twice if they differ.
C11_StoredAtBothCorners ==
    \A g \in DOMAIN inserted : \A i \in 1 .. Len(inserted[g]) :
        StoredAtCorners(grid_[g], inserted[g][i].entry)

\* the same for the entities given to insert(entity) only
C11_EntityOverload ==
    \A g \in DOMAIN inserted : \A i \in 1 .. Len(inserted[g]) :
        inserted[g][i].via = "insert" => StoredAtCorners(grid_[g], inserted[g][i].entry)

\* C12: g += h leaves in every voxel of g its previous list followed by h's
\* list of that voxel, so size(g) grows by size(h); h is unchanged.
C12_Merge ==
    [][Len(merges') = Len(merges) + 1 =>
           LET g == merges'[Len(merges')][1]
               h == merges'[Len(merges')][2]
           IN  /\ \A k \in DOMAIN grid_[g] \cup DOMAIN grid_[h] \cup DOMAIN grid_'[g] :
                      Voxel(grid_'[g], k) = Voxel(grid_[g], k) \o Voxel(grid_[h], k)
               /\ size(grid_'[g]) = size(grid_[g]) + size(grid_[h])
               /\ grid_'[h] = grid_[h]
      ]_vars

\* a += b was called with one entry in each grid, both under the same voxel: that
\* voxel of a holds a's entry, then b's
C12_Witness ==
    /\ merges = <<<<"a", "b">>>>
    /\ Len(inserted["a"]) = 1
    /\ Len(inserted["b"]) = 1
    /\ \E k \in DOMAIN grid_["a"] :
           grid_["a"][k] = <<inserted["a"][1].entry, inserted["b"][1].entry>>
    /\ size(grid_["a"]) > size(grid_["b"])


(***************************************************************************)
(* Properties of the geometry kernel, checked under SpecGeometry           *)
(***************************************************************************)

\* the call gmSphere.intersects(gmShape) has returned and gmShape is a cylinder
IntersectedCylinder == "intersects" \in gmDone /\ gmShape.kind = "Cylinder"

\* the squared distance of the point p to the axis segment p1 p2 of c
DistSqToAxisSegment(p, c) ==
    LET u == PSub(p, c.p1)
        v == PSub(c.p2, c.p1)
    IN  IF RLeq(Dot(v, u), Num(0)) THEN NormSq(u)
        ELSE IF RLeq(NormSq(v), Dot(v, u)) THEN NormSq(PSub(p, c.p2))
        ELSE RSub(NormSq(u), RDiv(RMul(Dot(v, u), Dot(v, u)), NormSq(v)))

\* the squared distance of p to the line of the axis of c, and the squared
\* distance by which p lies beyond the nearer end of the axis (p1 # p2)
RadialSq(p, c) ==
    LET u == PSub(p, c.p1)
        v == PSub(c.p2, c.p1)
    IN  RSub(NormSq(u), RDiv(RMul(Dot(v, u), Dot(v, u)), NormSq(v)))

AxialSq(p, c) ==
    LET u == PSub(p, c.p1)
        v == PSub(c.p2, c.p1)
        over == RSub(Dot(v, u), NormSq(v))
    IN  IF RLess(Dot(v, u), Num(0)) THEN RDiv(RMul(Dot(v, u), Dot(v, u)), NormSq(v))
        ELSE IF RLess(Num(0), over) THEN RDiv(RMul(over, over), NormSq(v))
        ELSE Num(0)

\* p lies within r of the solid cylinder c with flat ends:
\* AxialSq + max(0, sqrt(RadialSq) - c.radius)^2 <= r^2, written without roots
WithinOfSolidCylinder(p, c, r) ==
    LET k == RSub(RMul(r, r), AxialSq(p, c))
        R2 == RMul(c.radius, c.radius)
        e == RSub(RSub(RadialSq(p, c), R2), k)
    IN  /\ RLeq(Num(0), k)
        /\ \/ RLeq(RadialSq(p, c), R2)
           \/ RLeq(e, Num(0))
           \/ RLeq(RMul(e, e), RMul(RMul(Num(4), R2), k))

C14_ContainedPointIntersects ==
    (/\ gmDone = {"intersects", "contains"}
     /\ gmSphere.radius = Num(0)
     /\ gmOut.contains)
        => gmOut.intersects

\* a point contained in a cylinder, and one contained in a sphere, was tested
C14_WitnessCylinder ==
    /\ gmDone = {"intersects", "contains"}
    /\ gmSphere.radius = Num(0)
    /\ gmShape.kind = "Cylinder"
    /\ gmOut.contains
    /\ gmOut.intersects



(***************************************************************************)
(* Properties of the index tree, checked under SpecIndex                   *)
(***************************************************************************)

\* the query sphere of the tests at the k-th test centre
TestQuery(k) == Sphere(TestCenters[k], Num(2))

\* the ids of a sequence of entries
IdsOf(objs) == [i \in 1 .. Len(objs) |-> objs[i].id]

\* C15: on the tree of the three cylinders of scenario S2, is_intersecting with
\* the sphere of radius 2 at (15,0,0), (5,0,0), (0,-3,0), (0,6,0) yields
\* hit, miss, miss, hit, in either geometry mode
C15_CylinderScenario ==
    \A k \in 1 .. 4 :
        (/\ trType = "Segment"
         /\ rtree = TestEntities("Segment")
         /\ trOut.op = "is_intersecting"
         /\ trOut.shape = TestQuery(k))
            => trOut.result = <<TRUE, FALSE, FALSE, TRUE>>[k]

\* the query at (0,-3,0), beyond the end of the first cylinder, was answered with
\* the predicate of the kernel
C15_Witness ==
    /\ trType = "Segment"
    /\ rtree = TestEntities("Segment")
    /\ trOut.op = "is_intersecting"
    /\ trOut.shape = TestQuery(3)
    /\ trOut.mode = "BestEffortGeometry"
    /\ trOut.result = FALSE

\* the positions of the entries with gid g that the query shape intersects
HitsOfGid(g, shape, mode) ==
    {i \in 1 .. Len(rtree) : rtree[i].gid = g /\ geometry_intersects(shape, rtree[i], mode)}

\* C16: on a tree of synapses, count_intersecting_agg_gid(Q) maps each post_gid
\* to the number of intersecting synapses with that post_gid, its values add up
\* to count_intersecting(Q) for the same shape and mode, and a gid without a hit
\* is absent; on the synapses of scenario S4 the larger box gives {1: 1, 2: 2}
C16_Aggregation ==
    (trType = "Synapse" /\ trOut.op = "count_intersecting_agg_gid") =>
        LET agg == trOut.result
        IN  /\ SumOver(agg, DOMAIN agg) = count_intersecting(rtree, trOut.shape, trOut.mode)
            /\ \A g \in DOMAIN agg :
                  agg[g] >= 1 /\ agg[g] = Cardinality(HitsOfGid(g, trOut.shape, trOut.mode))
            /\ \A i \in 1 .. Len(rtree) :
                  geometry_intersects(trOut.shape, rtree[i], trOut.mode)
                      => rtree[i].gid \in DOMAIN agg
            /\ (rtree = TestEntities("Synapse") /\ trOut.shape = TestBoxes[2])
                  => (DOMAIN agg = {1, 2} /\ agg[1] = 1 /\ agg[2] = 2)

\* a query that hit two synapses of one gid and one of another was aggregated
C16_Witness ==
    /\ trType = "Synapse"
    /\ trOut.op = "count_intersecting_agg_gid"
    /\ \E g \in DOMAIN trOut.result : trOut.result[g] = 2
    /\ Cardinality(DOMAIN trOut.result) >= 2

\* the step is a call of insert
IsInsertStep == rtree' # rtree /\ trPlaced' = trPlaced

\* C17: after insert(e) every query whose shape intersects e reports e and the
\* results for the entries indexed before are unchanged, after any sequence of
\* inserts; the queries of VariantGeometries and VariantNeuronPieces give the
\* results those tests expect
C17_InsertVisibility ==
    [][IsInsertStep =>
        LET e == rtree'[Len(rtree')]
        IN  /\ \A shape \in QueryShapes, mode \in GeometryModes :
                  /\ find_intersecting_objs(rtree', shape, mode)
                        = find_intersecting_objs(rtree, shape, mode)
                             \o (IF geometry_intersects(shape, e, mode) THEN <<e>> ELSE <<>>)
                  /\ is_intersecting(rtree', shape, mode)
                        = (is_intersecting(rtree, shape, mode)
                              \/ geometry_intersects(shape, e, mode))
            /\ \A k \in 1 .. 4 :
                  /\ (trType = "GeometryEntry" /\ Len(rtree') = 4)
                        => is_intersecting(rtree', TestQuery(k), "BoundingBoxGeometry")
                              = <<TRUE, FALSE, TRUE, TRUE>>[k]
                  /\ rtree' = Append(TestEntities("MorphoEntry"), TestSegment10)
                        => IdsOf(find_intersecting_objs(rtree', TestQuery(k),
                                                        "BoundingBoxGeometry"))
                              = <<<<2>>, <<>>, <<0>>, <<10>>>>[k]
                  /\ rtree' = TestEntities("MorphoEntry") \o <<TestSegment10, TestSegment20>>
                        => IdsOf(find_intersecting_objs(rtree', TestQuery(k),
                                                        "BoundingBoxGeometry"))
                              = <<<<2, 20>>, <<20>>, <<0, 20>>, <<10, 20>>>>[k]
    ]_vars

\* after the two inserts of VariantNeuronPieces the query at (0,6,0) found both
\* inserted segments
C17_Witness ==
    /\ rtree = TestEntities("MorphoEntry") \o <<TestSegment10, TestSegment20>>
    /\ trOut.op = "find_intersecting_objs"
    /\ trOut.shape = TestQuery(4)
    /\ IdsOf(trOut.result) = <<10, 20>>

\* the step is a call of place
IsPlaceStep == Len(trPlaced') = Len(trPlaced) + 1

Deserialized == arIn # <<>> /\ (arObj # <<>> \/ arErr.type # "none")

\* C19: reading an indexed entity whose stored version is greater than 2 fails
\* with the future-format error and yields no entity; any version <= 2 is
\* accepted and yields the stored entity
C19_FutureFormat ==
    Deserialized =>
        IF arIn.version > 2
        THEN arErr = FutureFormat /\ arObj = <<>>
        ELSE arErr.type = "none" /\ arObj = arIn.entity

\* an archive of version 3 was refused
C19_Witness == Deserialized /\ arIn.version = 3 /\ arErr = FutureFormat


(***************************************************************************)
(* Properties of constructing Soma and Segment, checked under SpecEntity   *)
(***************************************************************************)

\* C20: constructing a Soma or a Segment from an id component that is out of
\* range ends, for every public constructor, with the exception thrown to the
\* caller, never with the termination of the process
C20_ErrorPropagates ==
    (/\ idPc \notin {"new", "off"}
     /\ ~ (/\ is_gid_safe(idArgs.gid)
           /\ is_section_id_safe(idArgs.section_id)
           /\ is_segment_id_safe(idArgs.segment_id)))
        => (idPc = "thrown" /\ idErr # "none")

(***************************************************************************)
(* Properties of the recursion of the distributed STR                      *)
(***************************************************************************)

\* the collectives of one call of the distributed STR, in the order of the calls
STRCalls == <<"sort0", "split0", "sort1", "split1", "sort2">>

IsPrefix(q, full) == Len(q) <= Len(full) /\ q = SubSeq(full, 1, Len(q))

\* the calls of every rank so far are the first calls of STRCalls, the
\* recursion is at dim 0, 1 or 2, and a rank that has returned has made them all
STRShape ==
    \A r \in Ranks :
        /\ IsPrefix(calls[r], STRCalls)
        /\ dim[r] \in 0 .. 2
        /\ pc[r] = "serial" => calls[r] = STRCalls /\ dim[r] = 2

\* C21: one call of the distributed STR makes every rank execute the
\* collectives sort0, split0, sort1, split1, sort2 in this order and no other,
\* never reaches dim 3, and returns on every rank.
C21_RecursionShape == [](STRShape) /\ <>(\A r \in Ranks : pc[r] = "serial")

\* four ranks have returned from the STR, each after three sorts and two splits
C21_Witness ==
    /\ nRanks = 4
    /\ \A r \in Ranks : pc[r] = "serial" /\ calls[r] = STRCalls /\ Len(comm[r]) = 1

\* the ranks per axis (Rx, Ry, Rz) of the rank grid
RanksPerDim == strParams.distributed.n_ranks_per_dim

\* the sub-communicator that the member of mpi rank k of communicator c gets
\* when c is cut into `slices` runs of consecutive ranks
ConsecutiveSlice(c, slices, k) ==
    LET subslice_size == Len(c) \div slices
        color == k \div subslice_size
    IN  SubSeq(c, color * subslice_size + 1, (color + 1) * subslice_size)

\* rank r goes through a comm_split in this step
IsSplitStep(r) == dim'[r] = dim[r] + 1

\* the ranks of the grid cell of world rank r along the last axis
GridCell(r) ==
    [i \in 1 .. RanksPerDim[3] |-> (r \div RanksPerDim[3]) * RanksPerDim[3] + i - 1]

\* C22: a comm_split at dim 0 or 1 on a communicator of size S gives the rank
\* of mpi rank r the sub-communicator of the S / R_dim consecutive ranks around
\* it with color floor(r / (S / R_dim)), in their order, and makes R_dim
\* sub-communicators; at dim 2 the communicator of a rank is its cell of the
\* rank grid, of size Rz, and the cells partition the ranks.
C22_CommSplit ==
    /\ [][\A r \in Ranks :
             IsSplitStep(r) =>
                 /\ dim[r] \in {0, 1}
                 /\ comm'[r] = ConsecutiveSlice(comm[r], RanksPerDim[dim[r] + 1],
                                                mpi_rank(comm[r], r))
                 /\ Cardinality({comm'[q] : q \in Members(comm[r])})
                        = RanksPerDim[dim[r] + 1]]_vars
    /\ [](\A r \in Ranks :
             dim[r] = 2 =>
                 /\ comm[r] = GridCell(r)
                 /\ Len(comm[r]) = RanksPerDim[3]
                 /\ \A q \in Ranks :
                        dim[q] = 2 => (comm[q] = comm[r] \/
                                       Members(comm[q]) \cap Members(comm[r]) = {}))

\* eight ranks have gone through both splits: the grid is 2 x 2 x 2 and rank 5
\* is in the cell of the ranks 4 and 5
C22_Witness ==
    /\ nRanks = 8
    /\ RanksPerDim = <<2, 2, 2>>
    /\ \A r \in Ranks : dim[r] = 2
    /\ comm[5] = <<4, 5>>

(***************************************************************************)
(* Collective matching in the load                                         *)
(***************************************************************************)

\* the world ranks of the largest communicator of the whole load
LoadRanks == 0 .. (Max(CommSizes) - 1)

\* rank r is inside a collective: it has entered it and the call has not returned
InCollective(r) == r \in Ranks /\ pc[r] \in {"sort", "split", "counts", "gatherv"}

\* the communicator of the collective rank r is inside
CollectiveComm(r) == IF pc[r] \in {"sort", "split"} THEN comm[r] ELSE World

\* rank q has entered the collective rank r is inside: the last call of r is
\* also a call of q, at the same place in the order of the calls
HasEntered(q, r) ==
    /\ Len(calls[q]) >= Len(calls[r])
    /\ calls[q][Len(calls[r])] = calls[r][Len(calls[r])]

\* rank r is inside a collective that rank q of its communicator has not entered
WaitsFor(r, q) ==
    /\ InCollective(r)
    /\ q \in Members(CollectiveComm(r))
    /\ ~HasEntered(q, r)

\* C23: whenever a rank is inside a collective of the load, every other rank
\* of the communicator of that collective eventually enters the same
\* collective, and in the end no rank is left inside a collective.
C23_CollectiveMatching ==
    /\ \A r \in LoadRanks, q \in LoadRanks : WaitsFor(r, q) ~> ~WaitsFor(r, q)
    /\ <>[](\A r \in Ranks : ~InCollective(r))

(***************************************************************************)
(* Conservation and keys in a completed load, checked under Spec           *)
(***************************************************************************)

\* the number of places at which element e occurs in sequence q
Occurrences(q, e) == Cardinality({i \in 1 .. Len(q) : q[i] = e})

\* the elements of all ranks, rank after rank
AllValues == Flatten([i \in 1 .. nRanks |-> values[World[i]]])

\* the subtrees rank r has saved, one after the other
SavedElements(r) == Flatten([k \in 1 .. Len(saved[r]) |-> saved[r][k].subtree])

\* rank r has left the subtree loop with every partition saved
LoopDone(r) == pc[r] \in {"counts", "gatherv", "done"}

\* C24: the ranks hold every input element exactly once at every moment of
\* the load, so before and after the distributed STR; the P subtrees a rank
\* has saved are, in order, its shard; once every rank is done every element
\* is in exactly one saved subtree and the n_elements of the boxes of the top
\* tree sum to N.
C24_Conservation ==
    /\ Len(AllValues) = TotalInput
    /\ \A e \in 1 .. TotalInput : Occurrences(AllValues, e) = 1
    /\ \A r \in Ranks :
           LoopDone(r) => Len(saved[r]) = LocalParts /\ SavedElements(r) = values[r]
    /\ (\A r \in Ranks : pc[r] = "done") =>
           /\ \A e \in 1 .. TotalInput :
                  Cardinality({rk \in Ranks \X (1 .. LocalParts) :
                      Occurrences(saved[rk[1]][rk[2]].subtree, e) > 0}) = 1
           /\ Len(topTrees) = 1
           /\ SumSeq([i \in 1 .. Len(topTrees[1].boxes) |->
                          topTrees[1].boxes[i].n_elements]) = TotalInput

\* two ranks are done with two partitions each over 43 elements, and the
\* element 1, given to rank 0, is in a subtree saved by rank 1
C24_Witness ==
    /\ nRanks = 2
    /\ LocalParts = 2
    /\ TotalInput = 43
    /\ \A r \in Ranks : pc[r] = "done"
    /\ Occurrences(SavedElements(1), 1) = 1

\* the subtrees saved so far, each named by its rank and its place on the rank
SavedSlots == {rk \in Ranks \X (1 .. LocalParts) : rk[2] <= Len(saved[rk[1]])}

\* C25: with the same P on all R ranks the keys rank * P + k of the saved
\* subtrees are pairwise distinct, they are exactly 0 .. R*P - 1 once every
\* rank has saved its P subtrees, and the boxes rank 0 has gathered carry
\* these keys in strictly increasing order.
C25_KeyUniqueness ==
    /\ \A a \in SavedSlots, b \in SavedSlots :
           saved[a[1]][a[2]].key = saved[b[1]][b[2]].key => a = b
    /\ (\A r \in Ranks : LoopDone(r)) =>
           {saved[a[1]][a[2]].key : a \in SavedSlots} = 0 .. (nRanks * LocalParts - 1)
    /\ pc[0] = "done" =>
           /\ Len(gathered[0]) = nRanks * LocalParts
           /\ \A i \in 1 .. Len(gathered[0]) : gathered[0][i].id = i - 1

\* rank 0 of two ranks with two partitions each has gathered four boxes, the
\* last of them with key 3 from rank 1
C25_Witness ==
    /\ nRanks = 2
    /\ LocalParts = 2
    /\ pc[0] = "done"
    /\ Len(gathered[0]) = 4
    /\ gathered[0][4].id = 3
    /\ \E k \in 1 .. Len(saved[1]) : saved[1][k].key = 3

(***************************************************************************)
(* Slice ordering, checked under SpecSplit                                 *)
(***************************************************************************)

\* the centre coordinates along axis d of the elements rank r holds
CoordinatesOn(r, d) == {GetCenterCoordinate(values[r][i], d) : i \in 1 .. Len(values[r])}

\* every element of rank r is at or below every element of rank q along axis d
OrderedAlong(r, q, d) ==
    \A x \in CoordinatesOn(r, d), y \in CoordinatesOn(q, d) : x <= y

\* the dim-0 slice of the rank grid that world rank r is in
Dim0Slice(r) == r \div (RanksPerDim[2] * RanksPerDim[3])

\* the dim-1 slice, within its dim-0 slice, that world rank r is in
Dim1Slice(r) == (r % (RanksPerDim[2] * RanksPerDim[3])) \div RanksPerDim[3]

\* C26: of two ranks past the split at dim 0 that are in different dim-0
\* slices, the one in the lower slice holds only x-centres at or below those
\* of the other, up to the return of the STR; of two ranks past the split at
\* dim 1 in the same dim-0 slice and different dim-1 slices, the one in the
\* lower dim-1 slice holds only y-centres at or below those of the other.
C26_SliceOrdering ==
    \A r \in Ranks, q \in Ranks :
        /\ (dim[r] >= 1 /\ dim[q] >= 1 /\ Dim0Slice(r) < Dim0Slice(q))
               => OrderedAlong(r, q, 0)
        /\ (dim[r] = 2 /\ dim[q] = 2 /\ Dim0Slice(r) = Dim0Slice(q)
                /\ Dim1Slice(r) < Dim1Slice(q))
               => OrderedAlong(r, q, 1)

\* eight ranks have returned from the STR; rank 3, of the lower dim-0 slice,
\* holds an element that rank 7 was called with; the ranks 3 and 4 are in
\* different dim-0 slices, the ranks 1 and 2 in different dim-1 slices of the
\* same dim-0 slice
C26_Witness ==
    /\ nRanks = 8
    /\ \A r \in Ranks : pc[r] = "serial"
    /\ \E i \in 1 .. Len(values[3]) : values[3][i] > 560
    /\ Dim0Slice(3) < Dim0Slice(4)
    /\ Dim0Slice(1) = Dim0Slice(2) /\ Dim1Slice(1) < Dim1Slice(2)
    /\ OrderedAlong(3, 4, 0) /\ OrderedAlong(1, 2, 1)
    /\ ~OrderedAlong(1, 2, 0)

====
